---- MODULE Spec2Model ----
(***************************************************************************)
(* Model of the Tier-0 pipeline of veritrust_group: the atomic writer,     *)
(* the JSON-LD graph builder, the canonical JSON hash and the manifest     *)
(* builder/signer.                                                         *)
(*                                                                         *)
(* JSON values are tagged records, so that a Python dict keeps its         *)
(* insertion order (a sequence of <<key, value>> pairs):                   *)
(*    [str |-> s]  [int |-> i]  [bool |-> b]  [null |-> TRUE]              *)
(*    [list |-> <<v1, ...>>]    [dict |-> << <<k1, v1>>, ... >>]           *)
(*    [obj |-> s]  a Python object json cannot serialize (a set, ...)      *)
(* File contents and serialized documents are sequences of string tokens.  *)
(***************************************************************************)
EXTENDS Integers, Sequences, FiniteSets, TLC

VARIABLES
    fs,             \* the filesystem: path -> [exists, content]
    pc,             \* position of the atomic writer in its body
    path,           \* atomic writer: argument `path`
    data,           \* atomic writer: argument `data` (a JSON value)
    fn,             \* atomic writer: which writer function is running
    written,        \* atomic writer: number of chunks json.dump has written
    err,            \* atomic writer: exception that left the function
    staged,         \* atomic writer: tmp.open() succeeded in this call
    prior,          \* fs[path] when the call was entered
    priorTmp,       \* fs[tmp] when the call was entered
    crashed,        \* the process was interrupted (nothing runs afterwards)
    firms,          \* build_jsonld_graph: argument `firms` (FirmModel records);
                    \* validate_records: argument `firms` (dicts)
    offices,        \* build_jsonld_graph: argument `offices` (OfficeModel records);
                    \* validate_records: argument `offices` (dicts);
                    \* normalise_records: locals `firms`, `offices` (returned)
    firms_doc,      \* build_jsonld_graph: the document returned
    gpc,            \* build_jsonld_graph: "start" before the call, "done" after
    PUBLIC_ID_BASE, \* jsonld_builder: the module global, cfg.public_id_base
    data_a,         \* compute_canonical_json_hash: a document
    data_b,         \* compute_canonical_json_hash: the same document, keys
                    \* inserted in another order
    serialized,     \* compute_canonical_json_hash: `serialized` of both calls
    digest,         \* compute_canonical_json_hash: the value returned by both
    cpc,            \* "built" before the two calls, "hashed" after
    VT_PRIVATE_KEY_PEM, \* the environment variable (what it holds)
    mpc,            \* build_manifest_and_sign: state of the run
    mi,             \* build_manifest_and_sign: index of `p` in the loop
    now_iso,        \* build_manifest_and_sign: local `now_iso`
    files_info,     \* build_manifest_and_sign: local `files_info`
    manifest,       \* build_manifest_and_sign: local `manifest`
    canonical_json, \* build_manifest_and_sign: local `canonical_json`
    private_key,    \* build_manifest_and_sign: local `private_key`
    failed_in,      \* state of the run in which an exception left it
    raised,         \* the exception that left build_manifest_and_sign
    rpc,            \* the full build: position in steps 4 and 5 of run()
    run_no,         \* the full build: 1 in the first run, 2 in the second
    ds_now_iso,     \* build_and_save_jsonld: local `now_iso`
    dataset_doc,    \* build_and_save_jsonld: local `dataset_doc`
    first,          \* what the first run left: documents and files
    valid_firms,    \* validate_records: local `valid_firms`
    valid_offices,  \* validate_records: local `valid_offices`
    vi,             \* validate_records: index of the record of the loop
    vpc,            \* validate_records: which loop runs, or how it ended
    vraised,        \* validate_records: the exception that left it
    log,            \* the records handed to `logging`, in order
    records,        \* normalise_records: argument `records` (raw dicts)
    ni,             \* normalise_records: index `idx` of the record of the loop
    nj,             \* normalise_records: index of the office of the inner loop
    npc,            \* normalise_records: which loop runs, or how it ended
    nraised,        \* normalise_records: the exception that left it
    hfile,          \* _file_sha256: the bytes of the file at `path`
    hpos,           \* _file_sha256: position of the open file `f`
    hchunks,        \* _file_sha256: the chunks handed to digest.update
    hfed,           \* _file_sha256: the bytes `digest` has hashed so far
    hdigest,        \* _file_sha256: the value returned
    hpc             \* _file_sha256: "reading" in the loop, "done" after it

wvars == <<fs, pc, path, data, fn, written, err, staged, prior, priorTmp, crashed>>
gvars == <<firms, offices, firms_doc, gpc, PUBLIC_ID_BASE>>
cvars == <<data_a, data_b, serialized, digest, cpc>>
mvars == <<VT_PRIVATE_KEY_PEM, mpc, mi, now_iso, files_info, manifest,
           canonical_json, private_key, failed_in, raised>>
pvars == <<rpc, run_no, ds_now_iso, dataset_doc, first>>
\* the state of the components that follow the manifest builder
vvars == <<valid_firms, valid_offices, vi, vpc, vraised, log>>
nvars == <<records, ni, nj, npc, nraised>>
hvars == <<hfile, hpos, hchunks, hfed, hdigest, hpc>>
evars == <<pvars, vvars, nvars, hvars, hvars>>
vars == <<wvars, gvars, cvars, mvars, evars>>

\* what a step of the atomic writer, resp. of the graph builder, leaves alone
notWriter == <<gvars, cvars, mvars, evars>>
notGraph == <<wvars, cvars, mvars, evars>>
notCanon == <<wvars, gvars, mvars, evars>>

-----------------------------------------------------------------------------
(* JSON values *)

JStr(s) == [str |-> s]
JInt(i) == [int |-> i]
JBool(b) == [bool |-> b]
JNull == [null |-> TRUE]
JList(l) == [list |-> l]
JDict(d) == [dict |-> d]
JObj(s) == [obj |-> s]

IsStr(v) == "str" \in DOMAIN v
IsInt(v) == "int" \in DOMAIN v
IsBool(v) == "bool" \in DOMAIN v
IsNull(v) == "null" \in DOMAIN v
IsList(v) == "list" \in DOMAIN v
IsDict(v) == "dict" \in DOMAIN v
IsObj(v) == "obj" \in DOMAIN v

\* dict lookups: `k in d`, d[k], d[k] = v (appends a new key, keeps the
\* position of an existing one)
HasKey(d, k) == \E i \in 1..Len(d.dict) : d.dict[i][1] = k
Get(d, k) == d.dict[CHOOSE i \in 1..Len(d.dict) : d.dict[i][1] = k][2]
KeysOf(d) == {d.dict[i][1] : i \in 1..Len(d.dict)}
SetItem(d, k, v) ==
    IF HasKey(d, k)
    THEN JDict([i \in 1..Len(d.dict) |->
                  IF d.dict[i][1] = k THEN <<k, v>> ELSE d.dict[i]])
    ELSE JDict(Append(d.dict, <<k, v>>))

\* the token that stands for the TypeError json raises on a value it cannot
\* serialize: the encoder yields the chunks before it and then raises
RaiseTypeError == "<TypeError>"

Quote(s) == "\"" \o s \o "\""

RECURSIVE Spaces(_)
Spaces(n) == IF n = 0 THEN "" ELSE "  " \o Spaces(n - 1)

Scalar(v) ==
    IF IsStr(v) THEN Quote(v.str)
    ELSE IF IsInt(v) THEN ToString(v.int)
    ELSE IF IsBool(v) THEN (IF v.bool THEN "true" ELSE "false")
    ELSE IF IsNull(v) THEN "null"
    ELSE RaiseTypeError


\* Python's order on the str keys used by the documents (code-point order);
\* sorted() over a dict's items orders them by it
KeyOrder ==
    << "@context", "@graph", "@id", "@type", "@vocab", "a", "address",
       "addressCountry", "addressLocality", "addressRegion", "algorithm", "b",
       "c", "canonicalSha256", "contentUrl", "creator", "dateModified",
       "description", "distribution", "encodingFormat", "firm",
       "isHeadOffice", "name", "officeId", "offices", "path", "postalCode",
       "regulatoryStatus", "sameAs", "schema", "sha256", "sizeInBytes",
       "sraId", "streetAddress", "value", "vt", "vt:signature" >>

KeyRank(k) == CHOOSE i \in 1..Len(KeyOrder) : KeyOrder[i] = k

\* the items of a dict as json iterates them with sort_keys=False
ItemsInsertionOrder(d) == d.dict

\* the items of a dict left in the order the caller inserted them
ItemsUnsorted(d) == d.dict

\* the items of a dict as json iterates them with sort_keys=True
ItemsSorted(d) ==
    LET n == Len(d.dict)
        pos(i) == Cardinality({j \in 1..n :
                      KeyRank(d.dict[j][1]) < KeyRank(d.dict[i][1])}) + 1
    IN  [r \in 1..n |-> d.dict[CHOOSE i \in 1..n : pos(i) = r]]

\* the pieces joined into one string (the list is halved, not peeled)
RECURSIVE Concat(_)
Concat(toks) ==
    IF toks = <<>> THEN ""
    ELSE IF Len(toks) = 1 THEN toks[1]
    ELSE LET mid == Len(toks) \div 2
         IN  Concat(SubSeq(toks, 1, mid)) \o Concat(SubSeq(toks, mid + 1, Len(toks)))

RECURSIVE Serializable(_)
Serializable(v) ==
    IF IsDict(v) THEN \A i \in 1..Len(v.dict) : Serializable(v.dict[i][2])
    ELSE IF IsList(v) THEN \A i \in 1..Len(v.list) : Serializable(v.list[i])
    ELSE ~IsObj(v)

\* json.dumps(v, ensure_ascii=False, separators=(",", ":"), sort_keys=True)
\* for a serializable v: one string
RECURSIVE CanonicalJson(_)
RECURSIVE CanonicalItems(_, _)
RECURSIVE CanonicalElems(_, _)
CanonicalItems(items, i) ==
    IF i > Len(items) THEN ""
    ELSE (IF i > 1 THEN "," ELSE "")
         \o Quote(items[i][1]) \o ":" \o CanonicalJson(items[i][2])
         \o CanonicalItems(items, i + 1)
CanonicalElems(l, i) ==
    IF i > Len(l) THEN ""
    ELSE (IF i > 1 THEN "," ELSE "") \o CanonicalJson(l[i])
         \o CanonicalElems(l, i + 1)
CanonicalJson(v) ==
    IF IsDict(v) THEN "{" \o CanonicalItems(ItemsSorted(v), 1) \o "}"
    ELSE IF IsList(v) THEN "[" \o CanonicalElems(v.list, 1) \o "]"
    ELSE Scalar(v)

\* hashlib.sha256(bytes).hexdigest(): the digest is modelled as a string that
\* determines the hashed bytes (no collisions)
Sha256Hex(bytes) == "sha256(" \o bytes \o ")"

\* json.dump(v, f, ensure_ascii=False, indent=2): the chunks the encoder
\* yields, in order; on a value it cannot serialize the chunks end with
\* RaiseTypeError
NewlineIndent(level) == "\n" \o Spaces(level)

RECURSIVE IterEncode(_, _)
RECURSIVE IterEncodeItems(_, _, _)
RECURSIVE IterEncodeElems(_, _, _)
IterEncodeItems(items, i, level) ==
    IF i > Len(items) THEN <<>>
    ELSE << (IF i > 1 THEN "," ELSE "") \o NewlineIndent(level)
            \o Quote(items[i][1]) \o ": " >>
         \o IterEncode(items[i][2], level)
         \o IterEncodeItems(items, i + 1, level)
IterEncodeElems(l, i, level) ==
    IF i > Len(l) THEN <<>>
    ELSE << (IF i > 1 THEN "," ELSE "") \o NewlineIndent(level) >>
         \o IterEncode(l[i], level)
         \o IterEncodeElems(l, i + 1, level)
IterEncode(v, level) ==
    IF IsDict(v) THEN
        IF v.dict = <<>> THEN << "{}" >>
        ELSE << "{" >>
             \o IterEncodeItems(ItemsInsertionOrder(v), 1, level + 1)
             \o << NewlineIndent(level) \o "}" >>
    ELSE IF IsList(v) THEN
        IF v.list = <<>> THEN << "[]" >>
        ELSE << "[" >> \o IterEncodeElems(v.list, 1, level + 1)
             \o << NewlineIndent(level) \o "]" >>
    ELSE << Scalar(v) >>

UpToRaise(chunks) ==
    IF \A i \in 1..Len(chunks) : chunks[i] # RaiseTypeError THEN chunks
    ELSE SubSeq(chunks, 1,
                (CHOOSE i \in 1..Len(chunks) :
                    /\ chunks[i] = RaiseTypeError
                    /\ \A j \in 1..(i - 1) : chunks[j] # RaiseTypeError) - 1)

\* the chunks json.dump writes to the file before it returns or raises
JsonDumpChunks(v) == UpToRaise(IterEncode(v, 0))

-----------------------------------------------------------------------------
(* The filesystem *)

NoFile == [exists |-> FALSE, content |-> <<>>]
File(c) == [exists |-> TRUE, content |-> c]

\* a pathlib.Path: its directory and its final component
PathIn(dir, name) == [parent |-> dir, name |-> name]

\* the three artifacts of a run (run_pipeline: cfg.jsonld_firms,
\* cfg.jsonld_dataset, cfg.jsonld_manifest), in one output directory
firms_path == PathIn("out", "firms.jsonld")
dataset_path == PathIn("out", "dataset.jsonld")
manifest_output_path == PathIn("out", "manifest.jsonld")

Targets == {firms_path, dataset_path, manifest_output_path}

\* path.with_suffix(path.suffix + ".tmp"): the sibling the writers stage in
TmpOfInPlace(p) == p
TmpOf(p) == [p EXCEPT !.name = @ \o ".tmp"]

Paths == Targets \cup {[p EXCEPT !.name = @ \o ".tmp"] : p \in Targets}

\* Path.exists()
PathExistsAlways(f, p) == TRUE
PathExists(f, p) == f[p].exists

\* tmp.open("w") / tmp.open("wb"): creates the file or truncates it
OpenTruncate(f, p) == [f EXCEPT ![p] = File(<<>>)]

\* f.write(chunk)
WriteChunk(f, p, chunk) == [f EXCEPT ![p] = File(Append(f[p].content, chunk))]

\* tmp.replace(path): an atomic rename, the source name is gone afterwards
ReplaceByCopy(f, src, dst) == [f EXCEPT ![dst] = f[src]]
Replace(f, src, dst) ==
    IF src = dst THEN f ELSE [f EXCEPT ![dst] = f[src], ![src] = NoFile]

\* tmp.unlink(missing_ok=True)
Unlink(f, p) == [f EXCEPT ![p] = NoFile]

-----------------------------------------------------------------------------
(* The atomic writers: atomic_writer.atomic_write_json, atomic_write_bytes  *)
(* and the identical jsonld_builder._atomic_write_json                      *)

JsonWriters == {"atomic_write_json", "_atomic_write_json"}
Writers == JsonWriters \cup {"atomic_write_bytes"}

tmp == TmpOf(path)

\* what the body of the `with` block writes, chunk by chunk
Chunks(f, d) == IF f \in JsonWriters THEN JsonDumpChunks(d) ELSE d.bytes

\* json.dump raises TypeError once the chunks before the bad value are out
DumpRaises(f, d) == f \in JsonWriters /\ ~Serializable(d)

Running == pc \in {"mkdir", "open", "dump", "close", "replace", "except"}

\* entry of the function: tmp = path.with_suffix(...)
Enter(f, p, d) ==
    /\ fn' = f
    /\ path' = p
    /\ data' = d
    /\ written' = 0
    /\ err' = "none"
    /\ staged' = FALSE
    /\ prior' = fs[p]
    /\ priorTmp' = fs[TmpOf(p)]
    /\ pc' = "mkdir"
    /\ UNCHANGED <<fs, crashed>>

\* path.parent.mkdir(parents=True, exist_ok=True)
Mkdir ==
    /\ UNCHANGED notWriter
    /\ ~crashed /\ pc = "mkdir"
    /\ pc' = "open"
    /\ UNCHANGED <<fs, path, data, fn, written, err, staged, prior, priorTmp, crashed>>

\* with tmp.open("w", encoding="utf-8") as f:
Open ==
    /\ UNCHANGED notWriter
    /\ ~crashed /\ pc = "open"
    /\ fs' = OpenTruncate(fs, tmp)
    /\ staged' = TRUE
    /\ pc' = "dump"
    /\ UNCHANGED <<path, data, fn, written, err, prior, priorTmp, crashed>>

\* json.dump(data, f, ...) / f.write(content): one chunk reaches the file
Write ==
    /\ UNCHANGED notWriter
    /\ ~crashed /\ pc = "dump"
    /\ written < Len(Chunks(fn, data))
    /\ fs' = WriteChunk(fs, tmp, Chunks(fn, data)[written + 1])
    /\ written' = written + 1
    /\ UNCHANGED <<pc, path, data, fn, err, staged, prior, priorTmp, crashed>>

\* json.dump reaches a value it cannot serialize: TypeError leaves the `with`
\* block (which closes the file) and is not an OSError, so no handler runs
DumpTypeError ==
    /\ UNCHANGED notWriter
    /\ ~crashed /\ pc = "dump"
    /\ written = Len(Chunks(fn, data))
    /\ DumpRaises(fn, data)
    /\ err' = "TypeError"
    /\ pc' = "raised"
    /\ UNCHANGED <<fs, path, data, fn, written, staged, prior, priorTmp, crashed>>

\* the payload is written: the `with` block is left normally
DumpDone ==
    /\ UNCHANGED notWriter
    /\ ~crashed /\ pc = "dump"
    /\ written = Len(Chunks(fn, data))
    /\ ~DumpRaises(fn, data)
    /\ pc' = "close"
    /\ UNCHANGED <<fs, path, data, fn, written, err, staged, prior, priorTmp, crashed>>

\* leaving the `with` block flushes and closes the file
Close ==
    /\ UNCHANGED notWriter
    /\ ~crashed /\ pc = "close"
    /\ pc' = "replace"
    /\ UNCHANGED <<fs, path, data, fn, written, err, staged, prior, priorTmp, crashed>>

\* tmp.replace(path); logging.info(...); return
ReplaceStep ==
    /\ UNCHANGED notWriter
    /\ ~crashed /\ pc = "replace"
    /\ fs' = Replace(fs, tmp, path)
    /\ pc' = "returned"
    /\ UNCHANGED <<path, data, fn, written, err, staged, prior, priorTmp, crashed>>

\* mkdir, open, write, flush/close or replace raises OSError (disk full,
\* permission denied, ...): control goes to `except OSError`
RaiseOSError ==
    /\ UNCHANGED notWriter
    /\ ~crashed /\ pc \in {"mkdir", "open", "dump", "close", "replace"}
    /\ pc' = "except"
    /\ UNCHANGED <<fs, path, data, fn, written, err, staged, prior, priorTmp, crashed>>

\* except OSError: logging.error(...); if tmp.exists(): tmp.unlink(); raise
ExceptOSError ==
    /\ UNCHANGED notWriter
    /\ ~crashed /\ pc = "except"
    /\ fs' = IF PathExists(fs, tmp) THEN Unlink(fs, tmp) ELSE fs
    /\ err' = "OSError"
    /\ pc' = "raised"
    /\ UNCHANGED <<path, data, fn, written, staged, prior, priorTmp, crashed>>

\* the process is interrupted (killed, power loss) inside the writer
Interrupt ==
    /\ UNCHANGED notWriter
    /\ ~crashed /\ Running
    /\ crashed' = TRUE
    /\ UNCHANGED <<fs, pc, path, data, fn, written, err, staged, prior, priorTmp>>

\* the steps of a writer whose payload json can serialize
WriterStepSerializable ==
    \/ Mkdir \/ Open \/ Write \/ DumpDone \/ Close
    \/ ReplaceStep \/ RaiseOSError \/ ExceptOSError

WriterStep == WriterStepSerializable \/ DumpTypeError

-----------------------------------------------------------------------------
(* The writers called on their own, with any payload, on any disk state *)

OldContent == << "old" >>

HarnessDocs ==
    { JDict(<< <<"a", JInt(1)>> >>),
      JDict(<< <<"a", JInt(1)>>, <<"b", JObj("set")>> >>) }

HarnessBytes == { [bytes |-> << "b1", "b2" >>] }

HarnessTargets == {manifest_output_path}

\* cfg.public_id_base: the value of the tests' configuration, the same
\* without the final "/", and None (the key is optional in the config)
TestIdBase == JStr("https://api.veritrustgroup.org/id/")
ConfiguredIdBases == {TestIdBase, JStr("https://api.veritrustgroup.org/id"), JNull}

\* the other components are not running
GraphParked ==
    /\ firms = <<>>
    /\ offices = <<>>
    /\ firms_doc = JNull
    /\ gpc = "start"
    /\ PUBLIC_ID_BASE = TestIdBase

CanonParked ==
    /\ data_a = JNull
    /\ data_b = JNull
    /\ serialized = << "", "" >>
    /\ digest = << "", "" >>
    /\ cpc = "built"

ManifestParked ==
    /\ VT_PRIVATE_KEY_PEM = "unset"
    /\ mpc = "idle"
    /\ mi = 1
    /\ now_iso = ""
    /\ files_info = << >>
    /\ manifest = JDict(<< >>)
    /\ canonical_json = ""
    /\ private_key = "None"
    /\ failed_in = ""
    /\ raised = "none"

PipelineParked ==
    /\ rpc = "idle"
    /\ run_no = 1
    /\ ds_now_iso = ""
    /\ dataset_doc = JNull
    /\ first = JNull

ValidateParked ==
    /\ valid_firms = << >>
    /\ valid_offices = << >>
    /\ vi = 1
    /\ vpc = "idle"
    /\ vraised = "none"
    /\ log = << >>

NormaliseParked ==
    /\ records = << >>
    /\ ni = 1
    /\ nj = 1
    /\ npc = "idle"
    /\ nraised = "none"

\* no digest was returned yet
NoDigest == [none |-> TRUE]

HashParked ==
    /\ hfile = << >>
    /\ hpos = 0
    /\ hchunks = << >>
    /\ hfed = << >>
    /\ hdigest = NoDigest
    /\ hpc = "idle"

LaterParked == PipelineParked /\ ValidateParked /\ NormaliseParked /\ HashParked

WriterInit ==
    /\ fs \in {f \in [Paths -> {NoFile, File(OldContent)}] :
                 \A p \in Paths : p \notin HarnessTargets => f[p] = NoFile}
    /\ pc = "idle"
    /\ path = manifest_output_path
    /\ data = JNull
    /\ fn = "atomic_write_json"
    /\ written = 0
    /\ err = "none"
    /\ staged = FALSE
    /\ prior = NoFile
    /\ priorTmp = NoFile
    /\ crashed = FALSE

\* a caller calls one of the writers
Call ==
    /\ UNCHANGED notWriter
    /\ ~crashed /\ pc \in {"idle", "returned", "raised"}
    /\ \E p \in HarnessTargets :
         \/ \E f \in JsonWriters, d \in HarnessDocs : Enter(f, p, d)
         \/ \E d \in HarnessBytes : Enter("atomic_write_bytes", p, d)

\* the pipeline is started again after an interruption
Restart ==
    /\ UNCHANGED notWriter
    /\ crashed
    /\ crashed' = FALSE
    /\ pc' = "idle"
    /\ UNCHANGED <<fs, path, data, fn, written, err, staged, prior, priorTmp>>

WriterNext == Call \/ WriterStep \/ Interrupt \/ Restart

WriterSpecInit ==
    WriterInit /\ GraphParked /\ CanonParked /\ ManifestParked /\ LaterParked

SpecWriter == WriterSpecInit /\ [][WriterNext]_vars

-----------------------------------------------------------------------------
(* Claims about the atomic writers (checked under SpecWriter) *)

\* the complete new content of the running call (none if json.dump raises)
NewFile == File(Chunks(fn, data))

\* C1: at every point of a call of a writer, also after a failure and after
\* an interruption at any step, the target path holds its complete prior
\* content (or no file if there was none) or the complete new content, never
\* a part of the new content.
C1_TargetPriorOrComplete ==
    pc # "idle" =>
        \/ fs[path] = prior
        \/ ~DumpRaises(fn, data) /\ fs[path] = NewFile

\* C1 witness: the process is interrupted in the middle of the payload, the
\* staging file holds a strict part of it and the target still holds the
\* file it had before.
C1_Witness ==
    /\ crashed /\ pc = "dump"
    /\ written > 0 /\ written < Len(Chunks(fn, data))
    /\ prior = File(OldContent)
    /\ fs[path] = prior
    /\ fs[TmpOf(path)].exists /\ fs[TmpOf(path)] # NewFile

\* C2: when a JSON writer fails after it created the temporary file,
\* whatever the error (OSError or a payload that cannot be serialized), the
\* temporary file is gone when control returns and the error reaches the
\* caller.
C2_TmpRemovedOnAnyFailure ==
    (fn \in JsonWriters /\ pc = "raised" /\ staged) =>
        (~PathExists(fs, TmpOf(path)) /\ err # "none")

\* C3: after a call of a writer that returns normally, the target exists
\* with exactly the new content and no <target>.tmp remains, whether or not
\* the target or the temporary file existed before.
C3_AfterReturn ==
    pc = "returned" =>
        (fs[path] = NewFile /\ ~PathExists(fs, TmpOf(path)))

\* C3 witness: a call returns on a disk where both the target and a stale
\* temporary file with other content existed before the call.
C3_Witness ==
    /\ pc = "returned"
    /\ prior = File(OldContent)
    /\ priorTmp.exists /\ priorTmp.content # <<>>
    /\ fs[path] = NewFile /\ NewFile # prior

-----------------------------------------------------------------------------
(* jsonld_builder: the JSON-LD graph                                        *)
(* A FirmModel is [sraId, name, regulatoryStatus]; an OfficeModel is        *)
(* [officeId, firmSraId, isHeadOffice, address], its address a record of    *)
(* JSON values (JStr or JNull for the optional fields).                     *)

\* f"{value}": the text an f-string puts for a config value
Formatted(v) == IF IsStr(v) THEN v.str ELSE "None"

VT_CONTEXT ==
    JDict(<< <<"@vocab", JStr("https://veritrustgroup.org/def/tier0/")>>,
             <<"schema", JStr("https://schema.org/")>>,
             <<"vt", JStr("https://veritrustgroup.org/def/tier0/")>> >>)

_iri_firm(sra_id) == Formatted(PUBLIC_ID_BASE) \o "firm/" \o sra_id

_iri_office(office_id) == Formatted(PUBLIC_ID_BASE) \o "office/" \o office_id

\* model.address.model_dump()
AddressDump(a) ==
    JDict(<< <<"streetAddress", a.streetAddress>>,
             <<"addressLocality", a.addressLocality>>,
             <<"addressRegion", a.addressRegion>>,
             <<"postalCode", a.postalCode>>,
             <<"addressCountry", a.addressCountry>> >>)

OfficeType == JList(<< JStr("vt:RegulatedOffice"), JStr("schema:PostalAddress") >>)
FirmType == JList(<< JStr("vt:RegulatedFirm"), JStr("schema:LegalService") >>)

\* OfficeLD(...).model_dump(by_alias=True): the fields in declaration order
build_office_entity(model) ==
    JDict(<< <<"@id", JStr(_iri_office(model.officeId))>>,
             <<"@type", OfficeType>>,
             <<"officeId", JStr(model.officeId)>>,
             <<"firm", JDict(<< <<"@id", JStr(_iri_firm(model.firmSraId))>> >>)>>,
             <<"isHeadOffice", JBool(model.isHeadOffice)>>,
             <<"address", AddressDump(model.address)>>,
             <<"sameAs", JStr("https://www.sra.org.uk/consumers/register/office/?id="
                              \o model.officeId)>> >>)

\* a reference to an entity by identifier only
RefTo(entity) == JDict(<< <<"@id", Get(entity, "@id")>> >>)

\* FirmLD(...).model_dump(by_alias=True): `offices` is a required List[Dict]
\* and is dumped as given (legalName is no field of FirmLD and is dropped)
FirmLD(model, office_list) ==
    JDict(<< <<"@id", JStr(_iri_firm(model.sraId))>>,
             <<"@type", FirmType>>,
             <<"name", JStr(model.name)>>,
             <<"regulatoryStatus", JStr(model.regulatoryStatus)>>,
             <<"sraId", JStr(model.sraId)>>,
             <<"offices", JList(office_list)>>,
             <<"sameAs", JStr("https://www.sra.org.uk/consumers/register/organisation/?id="
                              \o model.sraId)>> >>)

build_firm_entity_refs(model, office_entities) ==
    FirmLD(model, [j \in 1..Len(office_entities) |-> RefTo(office_entities[j])])

build_firm_entity_omit_empty(model, office_entities) ==
    IF office_entities = <<>>
    THEN JDict(SelectSeq(FirmLD(model, <<>>).dict, LAMBDA kv : kv[1] # "offices"))
    ELSE FirmLD(model, office_entities)

build_firm_entity(model, office_entities) == FirmLD(model, office_entities)

\* offices_by_firm.setdefault(off.firmSraId, []).append(off)
SetDefaultPrepend(by_firm, off) ==
    IF off.firmSraId \in DOMAIN by_firm
    THEN [by_firm EXCEPT ![off.firmSraId] = << off >> \o @]
    ELSE by_firm @@ (off.firmSraId :> << off >>)

SetDefaultAppend(by_firm, off) ==
    IF off.firmSraId \in DOMAIN by_firm
    THEN [by_firm EXCEPT ![off.firmSraId] = Append(@, off)]
    ELSE by_firm @@ (off.firmSraId :> << off >>)

\* for off in offices: ...   (the dict after the first n offices)
RECURSIVE OfficesByFirm(_, _)
OfficesByFirm(offs, n) ==
    IF n = 0 THEN << >>
    ELSE SetDefaultAppend(OfficesByFirm(offs, n - 1), offs[n])

\* offices_by_firm.get(firm.sraId, [])
DictGet(by_firm, k) == IF k \in DOMAIN by_firm THEN by_firm[k] ELSE << >>

\* the body of `for firm in firms`: what one firm adds to the graph
FirmThenOffices(firm, by_firm) ==
    LET own == DictGet(by_firm, firm.sraId)
        firm_office_entities == [j \in 1..Len(own) |-> build_office_entity(own[j])]
        firm_entity == build_firm_entity(firm, firm_office_entities)
    IN  << firm_entity >> \o firm_office_entities

RECURSIVE GraphLoop(_, _, _)
GraphLoop(fms, by_firm, i) ==
    IF i > Len(fms) THEN << >>
    ELSE FirmThenOffices(fms[i], by_firm) \o GraphLoop(fms, by_firm, i + 1)

\* the offices no firm of the input owns
Orphans(fms, offs) ==
    SelectSeq(offs, LAMBDA o : \A i \in 1..Len(fms) : fms[i].sraId # o.firmSraId)

GraphEntitiesWithOrphans(fms, offs) ==
    GraphLoop(fms, OfficesByFirm(offs, Len(offs)), 1)
    \o [j \in 1..Len(Orphans(fms, offs)) |-> build_office_entity(Orphans(fms, offs)[j])]

\* the list `graph` at the end of build_jsonld_graph
GraphEntities(fms, offs) == GraphLoop(fms, OfficesByFirm(offs, Len(offs)), 1)

build_jsonld_graph(fms, offs) ==
    JDict(<< <<"@context", VT_CONTEXT>>,
             <<"@graph", JList(GraphEntities(fms, offs))>> >>)

\* Inputs of the graph builder
MaxFirms == 2
MaxOffices == 2

SraIds == {"F1", "F2"}
OfficeIds == {"O1", "O2"}
\* firm keys an office may name: the firms' and one no firm has
FirmRefs == SraIds \cup {"F9"}

AnAddress ==
    [streetAddress |-> JStr("X"), addressLocality |-> JStr("Town"),
     addressRegion |-> JNull, postalCode |-> JStr("123"),
     addressCountry |-> JStr("UK")]

FirmModels ==
    {[sraId |-> id, name |-> "Firm", regulatoryStatus |-> "Active"] : id \in SraIds}

OfficeModels ==
    {[officeId |-> o, firmSraId |-> f, isHeadOffice |-> (o = "O1"),
      address |-> AnAddress] : o \in OfficeIds, f \in FirmRefs}

SeqsUpTo(S, n) == UNION {[1..k -> S] : k \in 0..n}

GraphInit ==
    /\ firms \in SeqsUpTo(FirmModels, MaxFirms)
    /\ offices \in SeqsUpTo(OfficeModels, MaxOffices)
    /\ firms_doc = JNull
    /\ gpc = "start"
    /\ PUBLIC_ID_BASE \in ConfiguredIdBases

WriterParked ==
    /\ fs = [p \in Paths |-> NoFile]
    /\ pc = "idle"
    /\ path = manifest_output_path
    /\ data = JNull
    /\ fn = "atomic_write_json"
    /\ written = 0
    /\ err = "none"
    /\ staged = FALSE
    /\ prior = NoFile
    /\ priorTmp = NoFile
    /\ crashed = FALSE

\* firms_doc = build_jsonld_graph(firms, offices)
BuildGraph ==
    /\ UNCHANGED notGraph
    /\ gpc = "start"
    /\ firms_doc' = build_jsonld_graph(firms, offices)
    /\ gpc' = "done"
    /\ UNCHANGED <<firms, offices, PUBLIC_ID_BASE>>

GraphNext == BuildGraph

GraphSpecInit ==
    GraphInit /\ WriterParked /\ CanonParked /\ ManifestParked /\ LaterParked

SpecGraph == GraphSpecInit /\ [][GraphNext]_vars

-----------------------------------------------------------------------------
(* compute_canonical_json_hash, called on two documents that hold the same  *)
(* keys and values and were built in different key orders                   *)

compute_canonical_json_hash(d) == Sha256Hex(CanonicalJson(d))

MaxKeys == 2

UsedKeys == SubSeq(<< "a", "b", "c" >>, 1, MaxKeys)

\* the dicts over some of the keys, keys inserted in ascending order
DictsOver(vals) ==
    UNION { LET ks == SelectSeq(UsedKeys, LAMBDA k : k \in S)
            IN  { JDict([i \in 1..Len(ks) |-> << ks[i], f[ks[i]] >>]) : f \in [S -> vals] }
            : S \in SUBSET {UsedKeys[i] : i \in 1..Len(UsedKeys)} }

InnerDocs == DictsOver({JInt(1)})

Docs == DictsOver({JInt(1), JInt(2)} \cup InnerDocs
                  \cup {JList(<< d >>) : d \in {x \in InnerDocs : Len(x.dict) = MaxKeys}})

SwapAdjacent(items, i) ==
    [j \in 1..Len(items) |->
        IF j = i THEN items[i + 1] ELSE IF j = i + 1 THEN items[i] ELSE items[j]]

\* the same dict with the items i and i+1 inserted in the other order
Reordered(d, i) == JDict(SwapAdjacent(d.dict, i))

CanonInit ==
    /\ data_a \in Docs
    /\ data_b = data_a
    /\ serialized = << "", "" >>
    /\ digest = << "", "" >>
    /\ cpc = "built"

\* data_b is built with two top-level keys in the other order
ReorderTop ==
    /\ UNCHANGED notCanon
    /\ cpc = "built"
    /\ \E i \in 1..(Len(data_b.dict) - 1) : data_b' = Reordered(data_b, i)
    /\ UNCHANGED <<data_a, serialized, digest, cpc>>

\* a dict nested in data_b (as a value, or inside a list) is built with two
\* keys in the other order
ReorderNested ==
    /\ UNCHANGED notCanon
    /\ cpc = "built"
    /\ \E n \in 1..Len(data_b.dict) :
         LET k == data_b.dict[n][1]
             v == data_b.dict[n][2]
         IN  \/ /\ IsDict(v)
                /\ \E i \in 1..(Len(v.dict) - 1) :
                     data_b' = SetItem(data_b, k, Reordered(v, i))
             \/ /\ IsList(v)
                /\ \E i \in 1..(Len(v.list[1].dict) - 1) :
                     data_b' = SetItem(data_b, k, JList(<< Reordered(v.list[1], i) >>))
    /\ UNCHANGED <<data_a, serialized, digest, cpc>>

\* compute_canonical_json_hash(data_a); compute_canonical_json_hash(data_b)
HashBoth ==
    /\ UNCHANGED notCanon
    /\ cpc = "built"
    /\ serialized' = << CanonicalJson(data_a), CanonicalJson(data_b) >>
    /\ digest' = << compute_canonical_json_hash(data_a),
                    compute_canonical_json_hash(data_b) >>
    /\ cpc' = "hashed"
    /\ UNCHANGED <<data_a, data_b>>

CanonNext == ReorderTop \/ ReorderNested \/ HashBoth

CanonSpecInit ==
    CanonInit /\ WriterParked /\ GraphParked /\ ManifestParked /\ LaterParked

SpecCanon == CanonSpecInit /\ [][CanonNext]_vars

-----------------------------------------------------------------------------
(* manifest_builder: build_manifest_and_sign                                *)

CHUNK_SIZE == 8192

Min(a, b) == IF a < b THEN a ELSE b

\* the bytes of a file: its content is the sequence of pieces written to it
FileBytes(f, p) == f[p].content

\* for chunk in iter(lambda: f.read(8192), b""): the chunks read from `pos`
RECURSIVE ReadChunks(_, _)
ReadChunks(bytes, pos) ==
    IF pos > Len(bytes) THEN << >>
    ELSE << SubSeq(bytes, pos, Min(pos + CHUNK_SIZE - 1, Len(bytes))) >>
         \o ReadChunks(bytes, pos + CHUNK_SIZE)

\* digest.update(chunk) for each chunk: the bytes the digest has seen
RECURSIVE Updated(_)
Updated(chunks) ==
    IF chunks = << >> THEN "" ELSE Concat(Head(chunks)) \o Updated(Tail(chunks))

_file_sha256(f, p) == Sha256Hex(Updated(ReadChunks(FileBytes(f, p), 1)))

\* p.stat().st_size
StatSize(f, p) == Len(Concat(f[p].content))

\* the dict appended to files_info for an existing file
FileInfo(f, p) ==
    JDict(<< <<"path", JStr(p.name)>>,
             <<"sha256", JStr(_file_sha256(f, p))>>,
             <<"sizeInBytes", JInt(StatSize(f, p))>> >>)

\* for p in [firms_path, dataset_path]
ArtifactPaths == << firms_path, dataset_path >>

\* what VT_PRIVATE_KEY_PEM can hold, and what load_pem_private_key does
\* with it: the key it returns, or the exception it raises
Credentials ==
    {"unset", "empty", "garbage", "encrypted", "unsupported", "rsa", "ed25519"}

load_pem_private_key(pem) ==
    CASE pem = "garbage"     -> [key |-> "None", raises |-> "ValueError"]
      [] pem = "encrypted"   -> [key |-> "None", raises |-> "TypeError"]
      [] pem = "unsupported" -> [key |-> "None", raises |-> "UnsupportedAlgorithm"]
      [] pem = "rsa"         -> [key |-> "RSAPrivateKey", raises |-> "none"]
      [] pem = "ed25519"     -> [key |-> "Ed25519PrivateKey", raises |-> "none"]

\* except (ValueError, TypeError, UnsupportedAlgorithm, InvalidKey)
CaughtValueErrorOnly == {"ValueError"}
CaughtOnLoad == {"ValueError", "TypeError", "UnsupportedAlgorithm", "InvalidKey"}

\* _try_load_private_key(): the key or None, or the exception that leaves it
_try_load_private_key(pem) ==
    IF pem \in {"unset", "empty"} THEN [key |-> "None", raises |-> "none"]
    ELSE LET r == load_pem_private_key(pem)
         IN  IF r.raises \in CaughtOnLoad
             THEN [key |-> "None", raises |-> "none"]
             ELSE r

\* private_key.sign(canonical_bytes, padding.PKCS1v15(), hashes.SHA256()):
\* an RSA key signs (PKCS#1 v1.5 is deterministic); the sign() of another
\* key type does not take these arguments and raises TypeError, which
\* _sign_bytes logs and raises again
_sign_bytes(key, canonical_bytes) ==
    IF key = "RSAPrivateKey"
    THEN [hex |-> "rsa_pkcs1v15_sha256(" \o canonical_bytes \o ")", raises |-> "none"]
    ELSE [hex |-> "", raises |-> "TypeError"]

NewManifest(now, info) ==
    JDict(<< <<"@context", JList(<< JStr("https://schema.org/"),
                                    JStr("https://veritrustgroup.org/def/tier0/") >>)>>,
             <<"@id", JStr("https://api.veritrustgroup.org/manifest/tier0-sra")>>,
             <<"@type", JStr("Dataset")>>,
             <<"name", JStr("VeriTrust Tier-0 SRA Manifest")>>,
             <<"dateModified", JStr(now)>>,
             <<"distribution", JList(info)>> >>)

SignatureWithValueAsAlgorithm(hex) ==
    JDict(<< <<"algorithm", JStr(hex)>>, <<"value", JStr(hex)>> >>)

SignatureOf(hex) ==
    JDict(<< <<"algorithm", JStr("RSA-SHA256")>>, <<"value", JStr(hex)>> >>)

\* datetime.now(timezone.utc).isoformat()
Times == {"2026-01-01T00:00:00+00:00", "2026-01-02T00:00:00+00:00"}

\* now_iso = ...; files_info = []
StartManifest ==
    /\ UNCHANGED <<gvars, cvars, wvars, evars>>
    /\ mpc = "idle"
    /\ \E t \in Times : now_iso' = t
    /\ files_info' = << >>
    /\ mi' = 1
    /\ mpc' = "COLLECTING_FILE_INFO"
    /\ UNCHANGED <<VT_PRIVATE_KEY_PEM, manifest, canonical_json, private_key,
                   failed_in, raised>>

\* one iteration of `for p in [firms_path, dataset_path]`; a missing file is
\* skipped with a warning; path.open("rb") on a missing file would raise
CollectFileInfo ==
    /\ UNCHANGED <<gvars, cvars, wvars, evars>>
    /\ mpc = "COLLECTING_FILE_INFO"
    /\ mi <= Len(ArtifactPaths)
    /\ LET p == ArtifactPaths[mi]
       IN  IF ~PathExists(fs, p) THEN
               /\ mi' = mi + 1
               /\ UNCHANGED <<files_info, mpc, failed_in, raised>>
           ELSE IF ~fs[p].exists THEN
               /\ mpc' = "FAILED"
               /\ failed_in' = "COLLECTING_FILE_INFO"
               /\ raised' = "FileNotFoundError"
               /\ UNCHANGED <<files_info, mi>>
           ELSE
               /\ files_info' = Append(files_info, FileInfo(fs, p))
               /\ mi' = mi + 1
               /\ UNCHANGED <<mpc, failed_in, raised>>
    /\ UNCHANGED <<VT_PRIVATE_KEY_PEM, now_iso, manifest, canonical_json, private_key>>

\* the loop is over: manifest = {...}
AssembleManifest ==
    /\ UNCHANGED <<gvars, cvars, wvars, evars>>
    /\ mpc = "COLLECTING_FILE_INFO"
    /\ mi > Len(ArtifactPaths)
    /\ manifest' = NewManifest(now_iso, files_info)
    /\ mpc' = "CANONICALIZING"
    /\ UNCHANGED <<VT_PRIVATE_KEY_PEM, mi, now_iso, files_info, canonical_json,
                   private_key, failed_in, raised>>

\* canonical_json = json.dumps(manifest, ..., sort_keys=True).encode("utf-8")
\* private_key = _try_load_private_key(); if private_key: ...
Canonicalize ==
    /\ UNCHANGED <<gvars, cvars, wvars, evars>>
    /\ mpc = "CANONICALIZING"
    /\ canonical_json' = CanonicalJson(manifest)
    /\ LET r == _try_load_private_key(VT_PRIVATE_KEY_PEM)
       IN  IF r.raises # "none" THEN
               /\ mpc' = "FAILED"
               /\ failed_in' = "CANONICALIZING"
               /\ raised' = r.raises
               /\ UNCHANGED private_key
           ELSE
               /\ private_key' = r.key
               /\ mpc' = IF r.key # "None" THEN "SIGNING" ELSE "SKIP_SIGNING"
               /\ UNCHANGED <<failed_in, raised>>
    /\ UNCHANGED <<VT_PRIVATE_KEY_PEM, mi, now_iso, files_info, manifest>>

SignThenRestamp ==
    /\ UNCHANGED <<gvars, cvars, evars>>
    /\ mpc = "SIGNING"
    /\ LET r == _sign_bytes(private_key, canonical_json)
       IN  IF r.raises # "none" THEN
               /\ mpc' = "FAILED"
               /\ failed_in' = "SIGNING"
               /\ raised' = r.raises
               /\ UNCHANGED <<manifest, wvars>>
           ELSE
               /\ manifest' = SetItem(SetItem(manifest, "dateModified", JStr("")),
                                      "vt:signature", SignatureOf(r.hex))
               /\ mpc' = "WRITING"
               /\ Enter("atomic_write_json", manifest_output_path, manifest')
               /\ UNCHANGED <<failed_in, raised>>
    /\ UNCHANGED <<VT_PRIVATE_KEY_PEM, mi, now_iso, files_info, canonical_json,
                   private_key>>

\* signature_hex = _sign_bytes(private_key, canonical_json)
\* manifest["vt:signature"] = {...}; atomic_write_json(...) is entered
Sign ==
    /\ UNCHANGED <<gvars, cvars, evars>>
    /\ mpc = "SIGNING"
    /\ LET r == _sign_bytes(private_key, canonical_json)
       IN  IF r.raises # "none" THEN
               /\ mpc' = "FAILED"
               /\ failed_in' = "SIGNING"
               /\ raised' = r.raises
               /\ UNCHANGED <<manifest, wvars>>
           ELSE
               /\ manifest' = SetItem(manifest, "vt:signature", SignatureOf(r.hex))
               /\ mpc' = "WRITING"
               /\ Enter("atomic_write_json", manifest_output_path, manifest')
               /\ UNCHANGED <<failed_in, raised>>
    /\ UNCHANGED <<VT_PRIVATE_KEY_PEM, mi, now_iso, files_info, canonical_json,
                   private_key>>

\* no key: atomic_write_json(manifest_output_path, manifest) is entered
SkipSigning ==
    /\ UNCHANGED <<gvars, cvars, evars>>
    /\ mpc = "SKIP_SIGNING"
    /\ mpc' = "WRITING"
    /\ Enter("atomic_write_json", manifest_output_path, manifest)
    /\ UNCHANGED <<VT_PRIVATE_KEY_PEM, mi, now_iso, files_info, manifest,
                   canonical_json, private_key, failed_in, raised>>

\* atomic_write_json returned: logging.info(...); return
WriteReturned ==
    /\ UNCHANGED <<gvars, cvars, wvars, evars>>
    /\ mpc = "WRITING" /\ pc = "returned"
    /\ mpc' = "DONE"
    /\ UNCHANGED <<VT_PRIVATE_KEY_PEM, mi, now_iso, files_info, manifest,
                   canonical_json, private_key, failed_in, raised>>

\* atomic_write_json raised: the exception leaves build_manifest_and_sign
WriteRaised ==
    /\ UNCHANGED <<gvars, cvars, wvars, evars>>
    /\ mpc = "WRITING" /\ pc = "raised"
    /\ mpc' = "FAILED"
    /\ failed_in' = "WRITING"
    /\ raised' = err
    /\ UNCHANGED <<VT_PRIVATE_KEY_PEM, mi, now_iso, files_info, manifest,
                   canonical_json, private_key>>

\* the artifacts on disk before the manifest is built: any of them may be
\* missing; the environment holds any credential
ArtifactContents == { << "{}" >>, << "[", "]\n" >> }

ManifestInit ==
    /\ fs \in {f \in [Paths -> {NoFile, File(OldContent)}
                              \cup {File(c) : c \in ArtifactContents}] :
                 /\ \A p \in Targets : f[TmpOf(p)] = NoFile
                 /\ f[manifest_output_path] \in {NoFile, File(OldContent)}
                 /\ f[firms_path] # File(OldContent)
                 /\ f[dataset_path] \in {NoFile, File(<< "{}" >>)}}
    /\ pc = "idle"
    /\ path = manifest_output_path
    /\ data = JNull
    /\ fn = "atomic_write_json"
    /\ written = 0
    /\ err = "none"
    /\ staged = FALSE
    /\ prior = NoFile
    /\ priorTmp = NoFile
    /\ crashed = FALSE
    /\ VT_PRIVATE_KEY_PEM \in Credentials
    /\ mpc = "idle"
    /\ mi = 1
    /\ now_iso = ""
    /\ files_info = << >>
    /\ manifest = JDict(<< >>)
    /\ canonical_json = ""
    /\ private_key = "None"
    /\ failed_in = ""
    /\ raised = "none"

ManifestNext ==
    \/ StartManifest \/ CollectFileInfo \/ AssembleManifest \/ Canonicalize
    \/ Sign \/ SkipSigning \/ WriterStepSerializable \/ WriteReturned \/ WriteRaised

ManifestSpecInit == ManifestInit /\ GraphParked /\ CanonParked /\ LaterParked

SpecManifest == ManifestSpecInit /\ [][ManifestNext]_vars

-----------------------------------------------------------------------------
(* Claims about build_jsonld_graph (checked under SpecGraph) *)

Graph == Get(firms_doc, "@graph").list

IsFirmEntity(e) == Get(e, "@type") = FirmType
IsOfficeEntity(e) == Get(e, "@type") = OfficeType

IsOrphan(o) == \A i \in 1..Len(firms) : firms[i].sraId # o.firmSraId

\* the entity e was built from the office o
EntityOfOffice(e, o) ==
    /\ IsOfficeEntity(e)
    /\ Get(e, "@id") = JStr(_iri_office(o.officeId))
    /\ Get(Get(e, "firm"), "@id") = JStr(_iri_firm(o.firmSraId))

\* some firm entity's office list has an element with the identifier of o
ReferencedByAFirm(o) ==
    \E j \in 1..Len(Graph) :
        /\ IsFirmEntity(Graph[j])
        /\ HasKey(Graph[j], "offices")
        /\ \E k \in 1..Len(Get(Graph[j], "offices").list) :
              /\ Get(Get(Graph[j], "offices").list[k], "@id")
                    = JStr(_iri_office(o.officeId))
              /\ Get(Graph[j], "sraId") = JStr(o.firmSraId)

EntitySignature(e) ==
    << Get(e, "@id").str,
       IF HasKey(e, "firm") THEN Get(Get(e, "firm"), "@id").str ELSE "" >>

OfficesOf(sra_id) == SelectSeq(offices, LAMBDA o : o.firmSraId = sra_id)

RECURSIVE FirmThenChildren(_)
FirmThenChildren(i) ==
    IF i > Len(firms) THEN << >>
    ELSE LET own == OfficesOf(firms[i].sraId)
         IN  << << _iri_firm(firms[i].sraId), "" >> >>
             \o [j \in 1..Len(own) |->
                   << _iri_office(own[j].officeId), _iri_firm(own[j].firmSraId) >>]
             \o FirmThenChildren(i + 1)

\* C5: @graph is the concatenation, over the firms in input order, of the
\* firm's entity immediately followed by the entities of the offices whose
\* firmSraId is that firm's sraId, in their relative input order.
C5_FirmThenChildrenOrder ==
    gpc = "done" =>
        [j \in 1..Len(Graph) |-> EntitySignature(Graph[j])] = FirmThenChildren(1)

\* C5 witness: two firms, and the offices come in the input in the opposite
\* order of their firms, so the graph reorders them.
C5_Witness ==
    /\ gpc = "done"
    /\ Len(firms) = 2 /\ firms[1].sraId # firms[2].sraId
    /\ Len(offices) = 2
    /\ offices[1].firmSraId = firms[2].sraId
    /\ offices[2].firmSraId = firms[1].sraId
    /\ Len(Graph) = 4

\* the office identifiers a firm entity's office list names, in order
OfficeListIds(e) ==
    [k \in 1..Len(Get(e, "offices").list) |->
        Get(Get(e, "offices").list[k], "@id").str]

ExpectedOfficeIds(sra_id) ==
    [k \in 1..Len(OfficesOf(sra_id)) |-> _iri_office(OfficesOf(sra_id)[k].officeId)]

OfficeEntityKeys ==
    {"@id", "@type", "officeId", "firm", "isHeadOffice", "address", "sameAs"}

HasNoOffice(sra_id) == \A i \in 1..Len(offices) : offices[i].firmSraId # sra_id

\* C7 as stated: the entity of a firm with zero offices has no office list
\* (the key is absent).
C7_NoOfficesKeyAbsent ==
    gpc = "done" =>
        \A j \in 1..Len(Graph) :
            (IsFirmEntity(Graph[j]) /\ HasNoOffice(Get(Graph[j], "sraId").str))
                => ~HasKey(Graph[j], "offices")

\* C7 amended: the entity of a firm with zero offices carries the key
\* `offices` with an empty list.
C7_NoOfficesEmptyList ==
    gpc = "done" =>
        \A j \in 1..Len(Graph) :
            (IsFirmEntity(Graph[j]) /\ HasNoOffice(Get(Graph[j], "sraId").str))
                => (HasKey(Graph[j], "offices")
                    /\ Get(Graph[j], "offices") = JList(<< >>))

\* C7 witness: a firm without offices is emitted next to a firm with one.
C7_Witness ==
    /\ gpc = "done"
    /\ \E i, k \in 1..Len(firms) :
          /\ HasNoOffice(firms[i].sraId)
          /\ ~HasNoOffice(firms[k].sraId)
    /\ \E j \in 1..Len(Graph) :
          IsFirmEntity(Graph[j]) /\ HasNoOffice(Get(Graph[j], "sraId").str)

-----------------------------------------------------------------------------
(* Claims about the canonical serialization (checked under SpecCanon) *)

\* the same keys and values at every nesting level, whatever the key order
RECURSIVE StructEq(_, _)
StructEq(x, y) ==
    IF IsDict(x) THEN
        /\ IsDict(y)
        /\ KeysOf(x) = KeysOf(y)
        /\ \A k \in KeysOf(x) : StructEq(Get(x, k), Get(y, k))
    ELSE IF IsList(x) THEN
        /\ IsList(y)
        /\ Len(x.list) = Len(y.list)
        /\ \A i \in 1..Len(x.list) : StructEq(x.list[i], y.list[i])
    ELSE x = y

\* C8: two documents that are structurally equal (maps built in any key
\* order) have the same canonical serialization and the same digest.
C8_CanonicalIgnoresKeyOrder ==
    (cpc = "hashed" /\ StructEq(data_a, data_b)) =>
        (serialized[1] = serialized[2] /\ digest[1] = digest[2])

\* C8 witness: {"a":2,"b":1} and {"b":1,"a":2} were hashed.
C8_Witness ==
    /\ cpc = "hashed"
    /\ data_a = JDict(<< <<"a", JInt(2)>>, <<"b", JInt(1)>> >>)
    /\ data_b = JDict(<< <<"b", JInt(1)>>, <<"a", JInt(2)>> >>)
    /\ StructEq(data_a, data_b)
    /\ serialized[2] = "{\"a\":2,\"b\":1}"
    /\ digest[1] = digest[2]

\* C8 second witness of the nested case: a dict nested in a list was built
\* in the other key order and the documents were hashed.
C8_NestedReached ==
    /\ cpc = "hashed"
    /\ data_a # data_b
    /\ \E n \in 1..Len(data_a.dict) :
          /\ IsList(data_a.dict[n][2])
          /\ HasKey(data_b, data_a.dict[n][1])
          /\ Get(data_b, data_a.dict[n][1]) # data_a.dict[n][2]

-----------------------------------------------------------------------------
(* Claims about build_manifest_and_sign (checked under SpecManifest) *)

\* the manifest is a dict of strings, numbers and lists: json.dump never
\* raises TypeError on it
ManifestSerializable == Serializable(manifest)

ExistingArtifacts == SelectSeq(ArtifactPaths, LAMBDA p : fs[p].exists)

\* one entry per artifact on disk: its name, the SHA-256 of its bytes taken
\* at once, and the number of its bytes
ExpectedDistribution ==
    [k \in 1..Len(ExistingArtifacts) |->
        LET p == ExistingArtifacts[k]
        IN  JDict(<< <<"path", JStr(p.name)>>,
                     <<"sha256", JStr(Sha256Hex(Concat(fs[p].content)))>>,
                     <<"sizeInBytes", JInt(Len(Concat(fs[p].content)))>> >>)]

ManifestAssembled ==
    mpc \in {"CANONICALIZING", "SIGNING", "SKIP_SIGNING", "WRITING", "DONE"}

\* C9: whatever artifacts exist or are missing, collecting the file
\* information raises nothing, and the distribution list of the manifest
\* (the one assembled and the one written) has exactly one entry per
\* artifact on disk, the graph before the descriptor, each with the file's
\* name, the SHA-256 of its bytes and its length in bytes; a missing
\* artifact contributes no entry.
C9_DistributionListsExistingFiles ==
    /\ failed_in # "COLLECTING_FILE_INFO"
    /\ ManifestAssembled =>
          /\ files_info = ExpectedDistribution
          /\ Get(manifest, "distribution") = JList(ExpectedDistribution)
    /\ mpc = "DONE" =>
          /\ Get(manifest, "distribution") = JList(ExpectedDistribution)
          /\ fs[manifest_output_path] = File(JsonDumpChunks(manifest))

\* C9 witness: the run is done with the graph missing and the descriptor on
\* disk, and the written manifest lists the descriptor alone.
C9_Witness ==
    /\ mpc = "DONE"
    /\ ~fs[firms_path].exists /\ fs[dataset_path].exists
    /\ Len(Get(manifest, "distribution").list) = 1
    /\ Get(Get(manifest, "distribution").list[1], "path") = JStr("dataset.jsonld")
    /\ fs[manifest_output_path] = File(JsonDumpChunks(manifest))

\* C9 second reachable case: both artifacts exist, of different sizes.
C9_BothListed ==
    /\ mpc = "DONE"
    /\ Len(Get(manifest, "distribution").list) = 2
    /\ Get(Get(manifest, "distribution").list[1], "sizeInBytes") = JInt(3)
    /\ Get(Get(manifest, "distribution").list[2], "sizeInBytes") = JInt(2)

\* the credential is unset, empty, or present but not loadable as a key
NoUsableCredential ==
    \/ VT_PRIVATE_KEY_PEM \in {"unset", "empty"}
    \/ load_pem_private_key(VT_PRIVATE_KEY_PEM).raises # "none"

\* the chunk json.dump writes for a top-level key that is not the first
KeyChunk(k) == "," \o NewlineIndent(1) \o Quote(k) \o ": "

\* C10: when the signing credential is unset, empty, invalid or unparsable,
\* the run does not fail for it (nothing is raised outside the final write,
\* and signing is skipped) and the manifest, as assembled and as written,
\* has no vt:signature key; a manifest has a vt:signature key (algorithm
\* RSA-SHA256 and a value) only when a private key was loaded.
C10_UnsignedFallback ==
    /\ NoUsableCredential =>
          /\ failed_in \in {"", "WRITING"}
          /\ mpc # "SIGNING"
          /\ ~HasKey(manifest, "vt:signature")
          /\ mpc = "DONE" =>
                /\ fs[manifest_output_path] = File(JsonDumpChunks(manifest))
                /\ \A i \in 1..Len(fs[manifest_output_path].content) :
                      fs[manifest_output_path].content[i] # KeyChunk("vt:signature")
    /\ HasKey(manifest, "vt:signature") =>
          /\ private_key # "None"
          /\ Get(Get(manifest, "vt:signature"), "algorithm") = JStr("RSA-SHA256")
          /\ IsStr(Get(Get(manifest, "vt:signature"), "value"))

\* C10 witness: with a credential that does not parse, the run is done and
\* the manifest on disk is the unsigned one.
C10_Witness ==
    /\ mpc = "DONE"
    /\ VT_PRIVATE_KEY_PEM = "garbage"
    /\ private_key = "None"
    /\ ~HasKey(manifest, "vt:signature")
    /\ fs[manifest_output_path] = File(JsonDumpChunks(manifest))

\* C10 second reachable case: with an RSA key the written manifest carries
\* the signature.
C10_SignedReached ==
    /\ mpc = "DONE"
    /\ VT_PRIVATE_KEY_PEM = "rsa"
    /\ HasKey(manifest, "vt:signature")
    /\ \E i \in 1..Len(fs[manifest_output_path].content) :
          fs[manifest_output_path].content[i] = KeyChunk("vt:signature")

-----------------------------------------------------------------------------
(* Properties of the state machine of build_manifest_and_sign               *)

\* the steps of the documented state machine, and the step by which an
\* exception leaves the run
ManifestSteps ==
    { <<"idle", "COLLECTING_FILE_INFO">>,
      <<"COLLECTING_FILE_INFO", "CANONICALIZING">>,
      <<"CANONICALIZING", "SIGNING">>,
      <<"CANONICALIZING", "SKIP_SIGNING">>,
      <<"SIGNING", "WRITING">>,
      <<"SKIP_SIGNING", "WRITING">>,
      <<"WRITING", "DONE">> }

InStateOrder ==
    mpc' # mpc => \/ <<mpc, mpc'>> \in ManifestSteps
                  \/ mpc' = "FAILED" /\ failed_in' = mpc

\* C11: a run passes through COLLECTING_FILE_INFO, CANONICALIZING, one of
\* SIGNING or SKIP_SIGNING, WRITING and DONE in that order, and WRITING is
\* the only state in which a failure ends the run: collecting, canonicalizing
\* and signing never let an error reach the caller.
C11_OnlyWritingFails ==
    /\ [][InStateOrder]_vars
    /\ [](mpc = "FAILED" => failed_in = "WRITING")

\* the run ended in SIGNING: a key was loaded, _sign_bytes raised, and
\* atomic_write_json was never entered, so the manifest file is untouched
C11_SigningFailed ==
    /\ mpc = "FAILED"
    /\ failed_in = "SIGNING"
    /\ raised = "TypeError"
    /\ private_key = "Ed25519PrivateKey"
    /\ pc = "idle"

-----------------------------------------------------------------------------
(* The full build: steps 4 and 5 of run_pipeline.run, which are             *)
(* build_and_save_jsonld followed by build_manifest_and_sign, run a first   *)
(* and a second time on the same input. Steps 1 to 3 (fetch, normalise,     *)
(* intermediates) produce `firms` and `offices` and write other files only. *)

PUBLIC_FILES_BASE == "https://api.veritrustgroup.org/files/"

_public_url(p) == PUBLIC_FILES_BASE \o p.name

\* dataset_doc = {...} of build_and_save_jsonld
DatasetDoc(now, public_url, firms_hash) ==
    JDict(<< <<"@context", JStr("https://schema.org/")>>,
             <<"@id", JStr("https://api.veritrustgroup.org/dataset/tier0-sra")>>,
             <<"@type", JStr("Dataset")>>,
             <<"name", JStr("VeriTrust Tier-0 SRA Canonical Dataset")>>,
             <<"description", JStr("Nightly canonical transformation of SRA public organisation data into AI-ready JSON-LD.")>>,
             <<"creator", JDict(<< <<"@type", JStr("Organization")>>,
                                   <<"name", JStr("VeriTrust Group Limited")>> >>)>>,
             <<"dateModified", JStr(now)>>,
             <<"distribution",
               JList(<< JDict(<< <<"@type", JStr("DataDownload")>>,
                                 <<"contentUrl", JStr(public_url)>>,
                                 <<"encodingFormat", JStr("application/ld+json")>> >>) >>)>>,
             <<"canonicalSha256", JStr(firms_hash)>> >>)

\* firms_doc = build_jsonld_graph(firms, offices); firms_hash = ...;
\* _atomic_write_json(firms_output_path, firms_doc) is entered
BuildGraphAndWrite ==
    /\ rpc = "start"
    /\ firms_doc' = build_jsonld_graph(firms, offices)
    /\ gpc' = "done"
    /\ Enter("_atomic_write_json", firms_path, firms_doc')
    /\ rpc' = "write_graph"
    /\ UNCHANGED <<firms, offices, PUBLIC_ID_BASE, cvars, mvars, vvars, nvars, hvars, run_no,
                   ds_now_iso, dataset_doc, first>>

DescribeDatasetNotWritten ==
    /\ rpc = "write_graph" /\ pc = "returned"
    /\ \E t \in Times :
         /\ ds_now_iso' = t
         /\ dataset_doc' = DatasetDoc(t, _public_url(firms_path),
                                      compute_canonical_json_hash(firms_doc))
    /\ rpc' = "write_descriptor"
    /\ UNCHANGED <<wvars, gvars, cvars, mvars, vvars, nvars, hvars, run_no, first>>

\* the graph is written: now_iso = ...; dataset_doc = {...};
\* _atomic_write_json(dataset_output_path, dataset_doc) is entered
DescribeDataset ==
    /\ rpc = "write_graph" /\ pc = "returned"
    /\ \E t \in Times :
         /\ ds_now_iso' = t
         /\ dataset_doc' = DatasetDoc(t, _public_url(firms_path),
                                      compute_canonical_json_hash(firms_doc))
    /\ Enter("_atomic_write_json", dataset_path, dataset_doc')
    /\ rpc' = "write_descriptor"
    /\ UNCHANGED <<gvars, cvars, mvars, vvars, nvars, hvars, run_no, first>>

\* the descriptor is written: build_and_save_jsonld returns and run() calls
\* build_manifest_and_sign
BuildSaved ==
    /\ rpc = "write_descriptor" /\ pc = "returned"
    /\ rpc' = "manifest"
    /\ UNCHANGED <<wvars, gvars, cvars, mvars, vvars, nvars, hvars, run_no,
                   ds_now_iso, dataset_doc, first>>

BuildRaisedSwallowed ==
    /\ rpc \in {"write_graph", "write_descriptor"} /\ pc = "raised"
    /\ rpc' = "manifest"
    /\ UNCHANGED <<wvars, gvars, cvars, mvars, vvars, nvars, hvars, run_no,
                   ds_now_iso, dataset_doc, first>>

\* _atomic_write_json raised: the OSError leaves build_and_save_jsonld and run()
BuildRaised ==
    /\ rpc \in {"write_graph", "write_descriptor"} /\ pc = "raised"
    /\ rpc' = "raised"
    /\ UNCHANGED <<wvars, gvars, cvars, mvars, vvars, nvars, hvars, run_no,
                   ds_now_iso, dataset_doc, first>>

CallManifestBeforeSaved ==
    rpc \in {"write_descriptor", "manifest"} /\ StartManifest

\* build_manifest_and_sign(firms_path, dataset_path, manifest_output_path)
CallManifest == rpc = "manifest" /\ StartManifest

\* build_manifest_and_sign returned: run() returns True
RunReturned ==
    /\ rpc = "manifest" /\ mpc = "DONE"
    /\ rpc' = "returned"
    /\ UNCHANGED <<wvars, gvars, cvars, mvars, vvars, nvars, hvars, run_no,
                   ds_now_iso, dataset_doc, first>>

\* an exception left build_manifest_and_sign: it leaves run()
RunRaised ==
    /\ rpc = "manifest" /\ mpc = "FAILED"
    /\ rpc' = "raised"
    /\ UNCHANGED <<wvars, gvars, cvars, mvars, vvars, nvars, hvars, run_no,
                   ds_now_iso, dataset_doc, first>>

\* the three output files
OutputFiles(f) == [p \in Targets |-> f[p]]

\* the build is run a second time on the same input and configuration
RunAgain ==
    /\ rpc = "returned" /\ run_no = 1
    /\ first' = [firms_doc |-> firms_doc, dataset_doc |-> dataset_doc,
                 manifest |-> manifest, files |-> OutputFiles(fs),
                 ds_now_iso |-> ds_now_iso, now_iso |-> now_iso]
    /\ run_no' = 2
    /\ rpc' = "start"
    /\ firms_doc' = JNull /\ gpc' = "start"
    /\ pc' = "idle"
    /\ mpc' = "idle" /\ mi' = 1 /\ now_iso' = "" /\ files_info' = << >>
    /\ manifest' = JDict(<< >>) /\ canonical_json' = ""
    /\ private_key' = "None" /\ failed_in' = "" /\ raised' = "none"
    /\ ds_now_iso' = "" /\ dataset_doc' = JNull
    /\ UNCHANGED <<fs, path, data, fn, written, err, staged, prior, priorTmp,
                   crashed, firms, offices, PUBLIC_ID_BASE, cvars, vvars, nvars, hvars,
                   VT_PRIVATE_KEY_PEM>>

\* the inputs of the build: no record, or a firm with an office
PipelineInputs ==
    { [firms |-> << >>, offices |-> << >>],
      [firms |-> << [sraId |-> "F1", name |-> "Firm", regulatoryStatus |-> "Active"] >>,
       offices |-> << [officeId |-> "O1", firmSraId |-> "F1", isHeadOffice |-> TRUE,
                       address |-> AnAddress] >>] }

PipelineCredentials == {"unset", "rsa", "ed25519"}

\* the output directory is empty, or holds the files of an earlier build
PipelineInit ==
    /\ fs \in { [p \in Paths |-> NoFile],
                [p \in Paths |-> IF p \in Targets THEN File(OldContent) ELSE NoFile] }
    /\ pc = "idle"
    /\ path = manifest_output_path
    /\ data = JNull
    /\ fn = "atomic_write_json"
    /\ written = 0
    /\ err = "none"
    /\ staged = FALSE
    /\ prior = NoFile
    /\ priorTmp = NoFile
    /\ crashed = FALSE
    /\ \E in \in PipelineInputs : firms = in.firms /\ offices = in.offices
    /\ firms_doc = JNull
    /\ gpc = "start"
    /\ PUBLIC_ID_BASE = TestIdBase
    /\ VT_PRIVATE_KEY_PEM \in PipelineCredentials
    /\ mpc = "idle"
    /\ mi = 1
    /\ now_iso = ""
    /\ files_info = << >>
    /\ manifest = JDict(<< >>)
    /\ canonical_json = ""
    /\ private_key = "None"
    /\ failed_in = ""
    /\ raised = "none"
    /\ rpc = "start"
    /\ run_no = 1
    /\ ds_now_iso = ""
    /\ dataset_doc = JNull
    /\ first = JNull

PipelineNext ==
    \/ BuildGraphAndWrite \/ DescribeDataset \/ BuildSaved \/ BuildRaised
    \/ CallManifest \/ CollectFileInfo \/ AssembleManifest \/ Canonicalize
    \/ Sign \/ SkipSigning \/ WriteReturned \/ WriteRaised
    \/ WriterStepSerializable
    \/ RunReturned \/ RunRaised \/ RunAgain

PipelineSpecInit ==
    PipelineInit /\ CanonParked /\ ValidateParked /\ NormaliseParked /\ HashParked

SpecPipeline == PipelineSpecInit /\ [][PipelineNext]_vars

-----------------------------------------------------------------------------
(* Properties of the full build run twice (checked under SpecPipeline)      *)

\* both runs returned, and the second run read the clock at times at which
\* the first did not
SecondRunReturned ==
    /\ rpc = "returned" /\ run_no = 2
    /\ {first.ds_now_iso, first.now_iso} \cap {ds_now_iso, now_iso} = {}

\* a document with the value of its dateModified field blanked
WithoutDate(doc) == SetItem(doc, "dateModified", JStr(""))

SameGraphDocument ==
    /\ firms_doc = first.firms_doc
    /\ fs[firms_path] = first.files[firms_path]

\* C12: two full builds of the same input at two different times leave an
\* identical graph document and a manifest document that differs from the
\* first run's manifest in nothing but the value of dateModified.
C12_ManifestDiffersInDateOnly ==
    SecondRunReturned =>
        /\ SameGraphDocument
        /\ WithoutDate(manifest) = WithoutDate(first.manifest)

\* a distribution entry of the manifest with the content hash and the size
\* blanked when it is the entry of the dataset descriptor
EntryMasked(entry) ==
    IF Get(entry, "path") = JStr(dataset_path.name)
    THEN SetItem(SetItem(entry, "sha256", JStr("")), "sizeInBytes", JInt(0))
    ELSE entry

\* a manifest with everything blanked that depends on the time of the run:
\* dateModified, the hash and size of the descriptor (which holds its own
\* dateModified) and the value of the signature
ManifestMasked(doc) ==
    LET dist == Get(doc, "distribution").list
        d1 == SetItem(WithoutDate(doc), "distribution",
                      JList([i \in 1..Len(dist) |-> EntryMasked(dist[i])]))
    IN  IF HasKey(doc, "vt:signature")
        THEN SetItem(d1, "vt:signature",
                     SetItem(Get(doc, "vt:signature"), "value", JStr("")))
        ELSE d1

DescriptorEntry(doc) == Get(doc, "distribution").list[2]

\* C12 as the code has it: the graph document is identical; the manifest
\* differs in dateModified, in the sha256 of the descriptor's entry and, if
\* signed, in the signature value, and in nothing else.
C12_ManifestDiffersInDateHashSignature ==
    SecondRunReturned =>
        /\ SameGraphDocument
        /\ ManifestMasked(manifest) = ManifestMasked(first.manifest)
        /\ Get(DescriptorEntry(manifest), "sha256")
               # Get(DescriptorEntry(first.manifest), "sha256")
        /\ HasKey(manifest, "vt:signature") =>
               Get(manifest, "vt:signature") # Get(first.manifest, "vt:signature")

\* C12 witness: both runs returned at different times, on a firm with an
\* office, signed, over the files of an earlier build
C12_Witness ==
    /\ SecondRunReturned
    /\ Len(firms) = 1 /\ Len(offices) = 1
    /\ HasKey(manifest, "vt:signature")
    /\ Get(manifest, "dateModified") # Get(first.manifest, "dateModified")
    /\ fs[manifest_output_path] # first.files[manifest_output_path]

\* C12: the same, unsigned
C12_UnsignedReached ==
    /\ SecondRunReturned
    /\ ~HasKey(manifest, "vt:signature")
    /\ Len(Get(manifest, "distribution").list) = 2

-----------------------------------------------------------------------------
(* Properties of one run (checked under SpecPipeline)                       *)

\* the positions of a run in order; RunAgain starts the next run
RunOrder ==
    { <<"start", "write_graph">>, <<"write_graph", "write_descriptor">>,
      <<"write_descriptor", "manifest">>, <<"manifest", "returned">> }

RunInOrder ==
    rpc' # rpc => \/ <<rpc, rpc'>> \in RunOrder
                  \/ rpc' = "raised"
                  \/ rpc = "returned" /\ rpc' = "start" /\ run_no' = run_no + 1

\* a writer is called only where the run enters the position of a document,
\* on that document's path
WriterCalledOncePerDocument ==
    (pc' = "mkdir" /\ pc # "mkdir") =>
        \/ rpc = "start" /\ rpc' = "write_graph" /\ path' = firms_path
        \/ rpc = "write_graph" /\ rpc' = "write_descriptor" /\ path' = dataset_path
        \/ /\ rpc = "manifest" /\ rpc' = "manifest"
           /\ mpc # "WRITING" /\ mpc' = "WRITING"
           /\ path' = manifest_output_path

\* an output file changes only in the atomic replace of the call on its path,
\* and gets the complete document
OutputsChangeByReplace ==
    \A p \in Targets :
        fs'[p] # fs[p] =>
            /\ pc = "replace" /\ pc' = "returned" /\ path = p
            /\ fs'[p] = File(JsonDumpChunks(data))

AllOutputsWritten ==
    /\ fs[firms_path] = File(JsonDumpChunks(firms_doc))
    /\ fs[dataset_path] = File(JsonDumpChunks(dataset_doc))
    /\ fs[manifest_output_path] = File(JsonDumpChunks(manifest))
    /\ \A p \in Targets : ~PathExists(fs, TmpOf(p))

\* C19: in a successful run each of the three output documents is the
\* product of exactly one atomic write, in the order graph, descriptor,
\* manifest, and all three files exist when run() returns.
C19_OneAtomicWriteEachInOrder ==
    /\ [][RunInOrder /\ WriterCalledOncePerDocument /\ OutputsChangeByReplace]_vars
    /\ [](rpc = "returned" => AllOutputsWritten)

\* C19 witness: the first run returned on a directory that was empty, with
\* a firm and an office in the graph, and the three files are there
C19_Witness ==
    /\ rpc = "returned" /\ run_no = 1
    /\ prior = NoFile
    /\ Len(firms) = 1
    /\ \A p \in Targets : PathExists(fs, p)
    /\ AllOutputsWritten

-----------------------------------------------------------------------------
(* What the manifest describes (checked under SpecPipeline)                 *)

\* the document is at its path, complete, and its temporary file is gone
RenamedIntoPlace(p, doc) ==
    /\ fs[p] = File(JsonDumpChunks(doc))
    /\ ~PathExists(fs, TmpOf(p))

BothRenamedIntoPlace ==
    /\ RenamedIntoPlace(firms_path, firms_doc)
    /\ RenamedIntoPlace(dataset_path, dataset_doc)

\* the run moves past a document only when the writer called on that
\* document's path in this run has returned from its rename
PastDocumentByRename ==
    (rpc' # rpc /\ rpc' \in {"write_descriptor", "manifest"}) =>
        /\ pc = "returned"
        /\ path = (IF rpc' = "write_descriptor" THEN firms_path ELSE dataset_path)
        /\ RenamedIntoPlace(path, data)

\* a file is hashed, and the manifest is assembled, only in step 5, with
\* both documents in place, and the files stay as they are in that step
ManifestReadsFinalFiles ==
    (\/ files_info' # files_info /\ files_info' # << >>
     \/ mpc = "COLLECTING_FILE_INFO" /\ mpc' = "CANONICALIZING") =>
        /\ rpc = "manifest"
        /\ BothRenamedIntoPlace
        /\ fs' = fs

\* the entry of the distribution at position i is that of the file at p in f
EntryDescribes(doc, i, f, p) ==
    LET dist == Get(doc, "distribution").list
    IN  /\ i <= Len(dist)
        /\ Get(dist[i], "path") = JStr(p.name)
        /\ Get(dist[i], "sha256") = JStr(_file_sha256(f, p))
        /\ Get(dist[i], "sizeInBytes") = JInt(StatSize(f, p))

\* what was at the path before this run: the file of an earlier build, and
\* in the second run the file the first run wrote
EarlierFiles(p) ==
    {File(OldContent)} \cup (IF run_no = 2 THEN {first.files[p]} ELSE {})

ManifestDescribesFilesAtReturn ==
    /\ Len(Get(manifest, "distribution").list) = Len(ArtifactPaths)
    /\ \A i \in 1..Len(ArtifactPaths) : EntryDescribes(manifest, i, fs, ArtifactPaths[i])
    /\ BothRenamedIntoPlace
    /\ \A i \in 1..Len(ArtifactPaths) :
           \A e \in EarlierFiles(ArtifactPaths[i]) \ {fs[ArtifactPaths[i]]} :
               ~EntryDescribes(manifest, i, [fs EXCEPT ![ArtifactPaths[i]] = e],
                               ArtifactPaths[i])

\* C21: in a run that completes, the manifest is assembled only after the
\* graph and the descriptor were renamed into place in that run, and when
\* run() returns each distribution entry gives the sha256 and the size of
\* the file at its path, not those of the file an earlier run left there.
C21_ManifestDescribesFinalFiles ==
    /\ [][PastDocumentByRename /\ ManifestReadsFinalFiles]_vars
    /\ [](rpc = "returned" => ManifestDescribesFilesAtReturn)

\* C21 witness: the second run returned over the files of the first; the
\* descriptor on disk differs from the one the first run left, and its
\* entry in the manifest describes the new one
C21_Witness ==
    /\ rpc = "returned" /\ run_no = 2
    /\ Len(firms) = 1
    /\ fs[dataset_path] # first.files[dataset_path]
    /\ EntryDescribes(manifest, 2, fs, dataset_path)
    /\ ~EntryDescribes(manifest, 2, first.files, dataset_path)
    /\ EntryDescribes(manifest, 1, fs, firms_path)

-----------------------------------------------------------------------------
(* A write that fails in the middle of a run (checked under SpecPipeline)   *)

\* the artifacts in the order run() writes them, and this run's documents
ArtifactOrder == << firms_path, dataset_path, manifest_output_path >>

DocumentOf(i) ==
    CASE i = 1 -> firms_doc
      [] i = 2 -> dataset_doc
      [] i = 3 -> manifest

\* the artifact the run is at: the graph up to its write, then the
\* descriptor, then the manifest
ArtifactAtWork ==
    IF rpc \in {"start", "write_graph"} THEN 1
    ELSE IF rpc = "write_descriptor" THEN 2
    ELSE 3

\* a step of a run touches neither a later artifact nor its temporary file
LaterArtifactsUntouched ==
    rpc \in {"start", "write_graph", "write_descriptor", "manifest"} =>
        \A i \in (ArtifactAtWork + 1)..Len(ArtifactOrder) :
            /\ fs'[ArtifactOrder[i]] = fs[ArtifactOrder[i]]
            /\ fs'[TmpOf(ArtifactOrder[i])] = fs[TmpOf(ArtifactOrder[i])]

\* once a write has raised, no writer is entered and no file changes
NothingWrittenAfterFailure ==
    pc = "raised" => (pc' = "raised" /\ fs' = fs)

\* the write of the artifact at position i raised
WriteFailed(i) == pc = "raised" /\ path = ArtifactOrder[i]

\* the file is the one that was there before this run
KeptFromBefore(p) ==
    /\ IF run_no = 2 THEN fs[p] = first.files[p]
                     ELSE fs[p] \in {NoFile, File(OldContent)}
    /\ ~PathExists(fs, TmpOf(p))

\* the file is the complete document this run wrote
KeptFromThisRun(i) == fs[ArtifactOrder[i]] = File(JsonDumpChunks(DocumentOf(i)))

\* C23: when the write of one artifact fails, the artifacts after it in the
\* order graph, descriptor, manifest are never written and keep the content
\* they had before the run (or stay absent), and the artifacts before it
\* keep the content this run wrote; a failed graph write leaves the
\* descriptor and the manifest unchanged.
C23_FailedWriteLeavesLaterArtifacts ==
    /\ [][LaterArtifactsUntouched /\ NothingWrittenAfterFailure]_vars
    /\ [](\A i \in 1..Len(ArtifactOrder) :
            WriteFailed(i) =>
                /\ \A j \in 1..(i - 1) : KeptFromThisRun(j)
                /\ \A j \in (i + 1)..Len(ArtifactOrder) :
                       KeptFromBefore(ArtifactOrder[j]))

\* C23 witness: in the second run the write of the descriptor failed and
\* left run(); the graph is the one this run wrote, the descriptor this run
\* built is not on disk, and the manifest is still that of the first run
C23_Witness ==
    /\ rpc = "raised" /\ run_no = 2
    /\ WriteFailed(2) /\ err = "OSError"
    /\ Len(firms) = 1
    /\ KeptFromThisRun(1)
    /\ fs[dataset_path] # File(JsonDumpChunks(dataset_doc))
    /\ fs[manifest_output_path] = first.files[manifest_output_path]
    /\ PathExists(fs, manifest_output_path)

\* C23: the write of the graph failed over the files of an earlier build,
\* and the descriptor and the manifest are those files
C23_GraphWriteFailed ==
    /\ rpc = "raised" /\ run_no = 1
    /\ WriteFailed(1)
    /\ fs[dataset_path] = File(OldContent)
    /\ fs[manifest_output_path] = File(OldContent)

\* C23: the write of the manifest failed, the graph and the descriptor of
\* this run stay
C23_ManifestWriteFailed ==
    /\ rpc = "raised"
    /\ WriteFailed(3) /\ failed_in = "WRITING"
    /\ KeptFromThisRun(1) /\ KeptFromThisRun(2)

-----------------------------------------------------------------------------
(* Verifying a written manifest: the file is read back with json.load, the  *)
(* signature is removed and the remainder is canonicalized (checked under   *)
(* SpecManifest)                                                            *)

\* the separators and the whitespace json skips in front of a token
RECURSIVE SkipSeparators(_)
SkipSeparators(s) ==
    IF s # "" /\ SubSeq(s, 1, 1) \in {",", "\n", " "}
    THEN SkipSeparators(Tail(s))
    ELSE s

Digits == "0123456789"

DigitValue(c) == CHOOSE d \in 0..9 : SubSeq(Digits, d + 1, d + 1) = c

RECURSIVE ParseInt(_)
ParseInt(s) ==
    IF s = "" THEN 0
    ELSE 10 * ParseInt(SubSeq(s, 1, Len(s) - 1)) + DigitValue(SubSeq(s, Len(s), Len(s)))

\* a token that is not a bracket: a string, a literal or a number
ParseScalar(t) ==
    IF SubSeq(t, 1, 1) = "\"" THEN JStr(SubSeq(t, 2, Len(t) - 1))
    ELSE IF t = "true" THEN JBool(TRUE)
    ELSE IF t = "false" THEN JBool(FALSE)
    ELSE IF t = "null" THEN JNull
    ELSE JInt(ParseInt(t))

\* the key of the piece `"key": `
ParseKey(t) == SubSeq(t, 2, Len(t) - 3)

\* json.load over the pieces of a file written by json.dump: the value that
\* starts at piece i, and the index of the piece after it; parsing a dict
\* sets its keys in the order read
RECURSIVE ParseValue(_, _)
RECURSIVE ParseItems(_, _, _)
RECURSIVE ParseElems(_, _, _)
ParseItems(chunks, i, acc) ==
    LET t == SkipSeparators(chunks[i])
    IN  IF t = "}" THEN [val |-> acc, next |-> i + 1]
        ELSE LET r == ParseValue(chunks, i + 1)
             IN  ParseItems(chunks, r.next, SetItem(acc, ParseKey(t), r.val))
ParseElems(chunks, i, acc) ==
    LET t == SkipSeparators(chunks[i])
    IN  IF t = "]" THEN [val |-> JList(acc), next |-> i + 1]
        ELSE LET r == ParseValue(chunks, i + 1)
             IN  ParseElems(chunks, r.next, Append(acc, r.val))
ParseValue(chunks, i) ==
    LET t == SkipSeparators(chunks[i])
    IN  IF t = "{}" THEN [val |-> JDict(<< >>), next |-> i + 1]
        ELSE IF t = "[]" THEN [val |-> JList(<< >>), next |-> i + 1]
        ELSE IF t = "{" THEN ParseItems(chunks, i + 1, JDict(<< >>))
        ELSE IF t = "[" THEN ParseElems(chunks, i + 1, << >>)
        ELSE [val |-> ParseScalar(t), next |-> i + 1]

JsonLoad(chunks) == ParseValue(chunks, 1).val

\* del d[k]
DelItem(d, k) == JDict(SelectSeq(d.dict, LAMBDA kv : kv[1] # k))

\* the bytes an RSA signature value was made over
SignedBytes(signature) ==
    LET hex == Get(signature, "value").str
    IN  SubSeq(hex, Len("rsa_pkcs1v15_sha256(") + 1, Len(hex) - 1)

\* the manifest as a verifier reads it from the file
WrittenManifest == JsonLoad(FileBytes(fs, manifest_output_path))

\* the bytes are signed before the signature is added
SignedBeforeAdding ==
    mpc = "SIGNING" =>
        /\ ~HasKey(manifest, "vt:signature")
        /\ canonical_json = CanonicalJson(manifest)

\* from signing to the end of writing the manifest changes only by getting
\* the signature, and it is the document handed to the writer
OnlySignatureAdded ==
    /\ (mpc \in {"SIGNING", "WRITING"} /\ manifest' # manifest) =>
           /\ mpc = "SIGNING" /\ mpc' = "WRITING"
           /\ DelItem(manifest', "vt:signature") = manifest
           /\ Get(manifest', "vt:signature").dict[1] = <<"algorithm", JStr("RSA-SHA256")>>
           /\ SignedBytes(Get(manifest', "vt:signature")) = canonical_json
    /\ mpc' = "WRITING" => data' = manifest'

\* the run signed and wrote the manifest
SignedAndWritten == mpc = "DONE" /\ private_key # "None"

\* C22: when the manifest is signed, the bytes signed are the canonical
\* serialization of the manifest before vt:signature is added, nothing else
\* changes up to the write, and the written file, read back, with
\* vt:signature removed and canonicalized, gives exactly the signed bytes.
C22_WrittenManifestReproducesSignedBytes ==
    /\ [][OnlySignatureAdded]_vars
    /\ [](SignedBeforeAdding)
    /\ [](SignedAndWritten =>
            /\ WrittenManifest = manifest
            /\ HasKey(WrittenManifest, "vt:signature")
            /\ CanonicalJson(DelItem(WrittenManifest, "vt:signature")) = canonical_json
            /\ SignedBytes(Get(WrittenManifest, "vt:signature")) = canonical_json)

\* C22 witness: a signed manifest that lists both artifacts was written over
\* an older manifest, and the file read back carries the signature
C22_Witness ==
    /\ SignedAndWritten
    /\ prior = File(OldContent)
    /\ Len(Get(WrittenManifest, "distribution").list) = 2
    /\ HasKey(WrittenManifest, "vt:signature")
    /\ SignedBytes(Get(WrittenManifest, "vt:signature"))
           = CanonicalJson(DelItem(WrittenManifest, "vt:signature"))

-----------------------------------------------------------------------------
(* validate.validate_records                                                *)

\* d.get(k): the value, or None if the key is missing
PyGet(d, k) == IF HasKey(d, k) THEN Get(d, k) ELSE JNull

\* bool(v)
Truthy(v) ==
    IF IsStr(v) THEN v.str # ""
    ELSE IF IsInt(v) THEN v.int # 0
    ELSE IF IsBool(v) THEN v.bool
    ELSE IF IsNull(v) THEN FALSE
    ELSE IF IsList(v) THEN v.list # << >>
    ELSE IF IsDict(v) THEN v.dict # << >>
    ELSE TRUE

\* str.strip() on the strings of the inputs
Strip(s) ==
    CASE s = " " -> ""
      [] s = "  " -> ""
      [] s = " F1 " -> "F1"
      [] OTHER -> s

\* isinstance(v, str) and v.strip() != ""
_str_ok(v) == IsStr(v) /\ Strip(v.str) # ""

\* the firm passes the three checks of the first loop
FirmPasses(f) ==
    /\ _str_ok(PyGet(f, "sraId"))
    /\ _str_ok(PyGet(f, "name"))
    /\ _str_ok(PyGet(f, "regulatoryStatus"))

\* one iteration of `for f in firms`
CheckFirm ==
    /\ vpc = "firms"
    /\ vi <= Len(firms)
    /\ valid_firms' = IF FirmPasses(firms[vi]) THEN Append(valid_firms, firms[vi])
                      ELSE valid_firms
    /\ vi' = vi + 1
    /\ UNCHANGED <<wvars, gvars, cvars, mvars, pvars, nvars, hvars, valid_offices, vpc, vraised, log>>

\* the first loop is over
FirmsChecked ==
    /\ vpc = "firms"
    /\ vi > Len(firms)
    /\ vpc' = "offices"
    /\ vi' = 1
    /\ UNCHANGED <<wvars, gvars, cvars, mvars, pvars, nvars, hvars, valid_firms, valid_offices,
                   vraised, log>>

\* addr = o.get("address") or {}
AddrOf(o) == IF Truthy(PyGet(o, "address")) THEN PyGet(o, "address") ELSE JDict(<< >>)

\* one iteration of `for o in offices`; addr.get raises AttributeError when
\* addr is not a dict
CheckOffice ==
    /\ vpc = "offices"
    /\ vi <= Len(offices)
    /\ LET o == offices[vi]
       IN  IF ~_str_ok(PyGet(o, "officeId")) \/ ~_str_ok(PyGet(o, "firmSraId")) THEN
               /\ vi' = vi + 1
               /\ UNCHANGED <<valid_offices, vpc, vraised>>
           ELSE IF ~IsDict(AddrOf(o)) THEN
               /\ vpc' = "raised"
               /\ vraised' = "AttributeError"
               /\ UNCHANGED <<valid_offices, vi>>
           ELSE
               /\ valid_offices' =
                      IF _str_ok(PyGet(AddrOf(o), "streetAddress"))
                      THEN Append(valid_offices, o) ELSE valid_offices
               /\ vi' = vi + 1
               /\ UNCHANGED <<vpc, vraised>>
    /\ UNCHANGED <<wvars, gvars, cvars, mvars, pvars, nvars, hvars, valid_firms, log>>

\* logging.info("Validation -> %d/%d firms, %d/%d offices", ...); return
ValidateReturn ==
    /\ vpc = "offices"
    /\ vi > Len(offices)
    /\ log' = Append(log, [level |-> "INFO", msg |-> "Validation",
                           args |-> << Len(valid_firms), Len(firms),
                                       Len(valid_offices), Len(offices) >>])
    /\ vpc' = "returned"
    /\ UNCHANGED <<wvars, gvars, cvars, mvars, pvars, nvars, hvars, valid_firms, valid_offices,
                   vi, vraised>>

\* the candidate records: well-formed ones and malformed ones (blank or
\* non-string values, missing keys, a missing, empty, blank or non-mapping
\* address)
MaxRecords == 2

FirmDict(id, name, status) ==
    JDict(<< <<"sraId", id>>, <<"name", name>>, <<"regulatoryStatus", status>> >>)

CandidateFirms ==
    { FirmDict(JStr("F1"), JStr("Firm"), JStr("Active")),
      FirmDict(JStr(" F1 "), JStr("Firm"), JStr("Active")),
      FirmDict(JStr(" "), JStr("Firm"), JStr("Active")),
      FirmDict(JStr("F2"), JInt(5), JStr("Active")),
      JDict(<< <<"sraId", JStr("F3")>>, <<"name", JStr("Firm")>> >>) }

OfficeDict(id, addr) ==
    JDict(<< <<"officeId", id>>, <<"firmSraId", JStr("F1")>>, <<"address", addr>> >>)

StreetOnly(street) == JDict(<< <<"streetAddress", street>> >>)

CandidateOffices ==
    { OfficeDict(JStr("O1"), StreetOnly(JStr("1 High St"))),
      OfficeDict(JStr("  "), StreetOnly(JStr("1 High St"))),
      OfficeDict(JStr("O2"), StreetOnly(JStr(" "))),
      OfficeDict(JStr("O3"), JNull),
      JDict(<< <<"officeId", JStr("O4")>>, <<"firmSraId", JStr("F1")>> >>),
      OfficeDict(JStr("O5"), JStr("1 High St")) }

ValidateInit ==
    /\ firms \in SeqsUpTo(CandidateFirms, MaxRecords)
    /\ offices \in SeqsUpTo(CandidateOffices, MaxRecords)
    /\ firms_doc = JNull
    /\ gpc = "start"
    /\ PUBLIC_ID_BASE = TestIdBase
    /\ valid_firms = << >>
    /\ valid_offices = << >>
    /\ vi = 1
    /\ vpc = "firms"
    /\ vraised = "none"
    /\ log = << >>

ValidateNext == CheckFirm \/ FirmsChecked \/ CheckOffice \/ ValidateReturn

ValidateSpecInit ==
    /\ ValidateInit /\ WriterParked /\ CanonParked /\ ManifestParked
    /\ PipelineParked /\ NormaliseParked /\ HashParked

SpecValidate == ValidateSpecInit /\ [][ValidateNext]_vars

-----------------------------------------------------------------------------
(* Properties of validate_records (checked under SpecValidate)              *)

NonBlankString(v) == IsStr(v) /\ Strip(v.str) # ""

\* the firms and offices the contract accepts
FirmAccepted(f) ==
    /\ NonBlankString(PyGet(f, "sraId"))
    /\ NonBlankString(PyGet(f, "name"))
    /\ NonBlankString(PyGet(f, "regulatoryStatus"))

OfficeAccepted(o) ==
    /\ NonBlankString(PyGet(o, "officeId"))
    /\ NonBlankString(PyGet(o, "firmSraId"))
    /\ IsDict(PyGet(o, "address"))
    /\ NonBlankString(PyGet(PyGet(o, "address"), "streetAddress"))

\* C13: whatever is malformed in a record (missing keys, non-string values,
\* a missing or non-mapping address), validate_records raises no exception
\* and returns, in input order, exactly the accepted firms and offices.
C13_NoExceptionExactSubset ==
    /\ vpc # "raised"
    /\ vpc = "returned" =>
           /\ valid_firms = SelectSeq(firms, FirmAccepted)
           /\ valid_offices = SelectSeq(offices, OfficeAccepted)

\* an office whose address is a non-empty string ended the batch with
\* AttributeError although a well-formed office follows it
C13_BatchAborted ==
    /\ vpc = "raised" /\ vraised = "AttributeError"
    /\ IsStr(PyGet(offices[vi], "address"))
    /\ vi < Len(offices) /\ OfficeAccepted(offices[vi + 1])

RejectedFirms == {i \in 1..Len(firms) : ~FirmAccepted(firms[i])}
RejectedOffices == {i \in 1..Len(offices) : ~OfficeAccepted(offices[i])}

\* a log entry of its own for the rejected record
RejectionLogged(kind, i) ==
    \E n \in 1..Len(log) :
        /\ log[n].msg # "Validation"
        /\ log[n].args = << kind, i >>

\* C14: every record validate_records rejects has a log entry of its own
\* that identifies the record and the reason, next to the one summary line.
C14_EveryRejectionLogged ==
    vpc = "returned" =>
        /\ \A i \in RejectedFirms : RejectionLogged("firm", i)
        /\ \A i \in RejectedOffices : RejectionLogged("office", i)
        /\ Cardinality({n \in 1..Len(log) : log[n].msg = "Validation"}) = 1

\* records were rejected and the log holds the summary line and nothing else
C14_OnlySummaryLogged ==
    /\ vpc = "returned"
    /\ RejectedFirms # {} /\ RejectedOffices # {}
    /\ Len(log) = 1 /\ log[1].msg = "Validation"

-----------------------------------------------------------------------------
(* normalize.normalise_records                                              *)

HEAD_OFFICE == "HEAD OFFICE"

\* str(value)
PyStr(v) == IF IsStr(v) THEN v.str ELSE IF IsInt(v) THEN ToString(v.int) ELSE "None"

\* " ".join(s.split()) on the strings of the inputs: whitespace at the ends
\* goes, a run of whitespace inside becomes one space
SplitJoin(s) ==
    CASE s = " " -> ""
      [] s = "  " -> ""
      [] s = "F2 " -> "F2"
      [] s = "Firm  One" -> "Firm One"
      [] s = "1 High  St" -> "1 High St"
      [] s = "1 High  St Floor 2" -> "1 High St Floor 2"
      [] OTHER -> s

\* _clean(value)
_clean(value) == IF ~Truthy(value) THEN "" ELSE SplitJoin(PyStr(value))

\* " ".join(parts)
RECURSIVE JoinSpace(_)
JoinSpace(parts) ==
    IF parts = << >> THEN ""
    ELSE IF Len(parts) = 1 THEN parts[1]
    ELSE parts[1] \o " " \o JoinSpace(Tail(parts))

\* street = " ".join(p for p in [Address1, ..., Address4] if p)
StreetOf(office) ==
    JoinSpace([i \in 1..Len(SelectSeq(<< PyGet(office, "Address1"), PyGet(office, "Address2"),
                                         PyGet(office, "Address3"), PyGet(office, "Address4") >>,
                                      Truthy))
               |-> SelectSeq(<< PyGet(office, "Address1"), PyGet(office, "Address2"),
                                PyGet(office, "Address3"), PyGet(office, "Address4") >>,
                             Truthy)[i].str])

\* the keyword arguments handed to NormalizedAddress(...)
AddressFields(office) ==
    [streetAddress |-> _clean(JStr(StreetOf(office))),
     addressLocality |-> _clean(PyGet(office, "Town")),
     postalCode |-> _clean(PyGet(office, "Postcode")),
     addressCountry |-> _clean(PyGet(office, "Country"))]

\* NormalizedAddress: every field is a str with min_length=1
AddressValid(a) ==
    /\ a.streetAddress # "" /\ a.addressLocality # ""
    /\ a.postalCode # "" /\ a.addressCountry # ""

NoAddress == [none |-> TRUE]

_build_address_unvalidated(office) == AddressFields(office)

\* _build_address(office): the address, or None after the ValidationError
\* is caught and logged
_build_address(office) ==
    IF AddressValid(AddressFields(office)) THEN AddressFields(office) ELSE NoAddress

\* the keyword arguments handed to NormalizedFirm(...)
FirmFields(rec, firm_id) ==
    [sraId |-> firm_id,
     sraNumber |-> _clean(PyGet(rec, "SraNumber")),
     name |-> _clean(PyGet(rec, "PracticeName")),
     regulatoryStatus |-> _clean(PyGet(rec, "AuthorisationStatus")),
     authorisationType |-> _clean(PyGet(rec, "AuthorisationType")),
     organisationType |-> _clean(PyGet(rec, "OrganisationType")),
     companyRegNo |-> _clean(PyGet(rec, "CompanyRegNo")),
     constitution |-> _clean(PyGet(rec, "Constitution"))]

\* NormalizedFirm: sraId and name have min_length=1
FirmValid(f) == f.sraId # "" /\ f.name # ""

NormalizedOfficeSwapped(office_id, firm_id, office, addr) ==
    [officeId |-> firm_id, firmSraId |-> office_id,
     isHeadOffice |-> (PyGet(office, "OfficeType") = JStr(HEAD_OFFICE)),
     address |-> addr]

\* NormalizedOffice(officeId=office_id, firmSraId=firm_id, ...)
NormalizedOffice(office_id, firm_id, office, addr) ==
    [officeId |-> office_id, firmSraId |-> firm_id,
     isHeadOffice |-> (PyGet(office, "OfficeType") = JStr(HEAD_OFFICE)),
     address |-> addr]

\* rec.get("Offices") or []
RawOffices(rec) ==
    IF Truthy(PyGet(rec, "Offices")) THEN PyGet(rec, "Offices").list ELSE << >>

notLog == <<valid_firms, valid_offices, vi, vpc, vraised>>

\* one iteration of `for idx, rec in enumerate(records)` up to the inner
\* loop: a record with a blank Id is skipped with a warning; a firm that
\* fails validation is logged and the ValidationError is raised again
NormaliseFirm ==
    /\ npc = "record"
    /\ ni <= Len(records)
    /\ LET rec == records[ni]
           firm_id == _clean(PyGet(rec, "Id"))
       IN  IF firm_id = "" THEN
               /\ log' = Append(log, [level |-> "WARNING",
                                      msg |-> "Skipping raw record with no Id",
                                      args |-> << ni - 1 >>])
               /\ ni' = ni + 1
               /\ UNCHANGED <<firms, nj, npc, nraised>>
           ELSE IF ~FirmValid(FirmFields(rec, firm_id)) THEN
               /\ log' = Append(log, [level |-> "ERROR",
                                      msg |-> "Firm validation failed",
                                      args |-> << ni - 1 >>])
               /\ npc' = "raised"
               /\ nraised' = "ValidationError"
               /\ UNCHANGED <<firms, ni, nj>>
           ELSE
               /\ firms' = Append(firms, FirmFields(rec, firm_id))
               /\ npc' = "offices"
               /\ nj' = 1
               /\ UNCHANGED <<log, ni, nraised>>
    /\ UNCHANGED <<wvars, offices, firms_doc, gpc, PUBLIC_ID_BASE, cvars, mvars, pvars,
                   hvars, notLog, records>>

\* one iteration of `for office in rec.get("Offices") or []`
NormaliseOffice ==
    /\ npc = "offices"
    /\ nj <= Len(RawOffices(records[ni]))
    /\ LET rec == records[ni]
           firm_id == _clean(PyGet(rec, "Id"))
           office == RawOffices(rec)[nj]
           office_id == _clean(PyGet(office, "OfficeId"))
           addr == _build_address(office)
       IN  IF office_id = "" THEN
               /\ log' = Append(log, [level |-> "WARNING",
                                      msg |-> "Skipping office with no OfficeId",
                                      args |-> << firm_id >>])
               /\ UNCHANGED offices
           ELSE IF addr = NoAddress THEN
               /\ log' = Append(log, [level |-> "ERROR",
                                      msg |-> "Office validation failed",
                                      args |-> << PyGet(office, "FirmId"),
                                                  PyGet(office, "OfficeId") >>])
               /\ UNCHANGED offices
           ELSE
               /\ offices' = Append(offices,
                                    NormalizedOffice(office_id, firm_id, office, addr))
               /\ UNCHANGED log
    /\ nj' = nj + 1
    /\ UNCHANGED <<wvars, firms, firms_doc, gpc, PUBLIC_ID_BASE, cvars, mvars, pvars, hvars, notLog,
                   records, ni, npc, nraised>>

\* the inner loop is over: the next record
OfficesDone ==
    /\ npc = "offices"
    /\ nj > Len(RawOffices(records[ni]))
    /\ ni' = ni + 1
    /\ npc' = "record"
    /\ UNCHANGED <<wvars, gvars, cvars, mvars, pvars, vvars, hvars, records, nj, nraised>>

\* logging.info("Normalisation OK ..."); return firms, offices
NormaliseReturn ==
    /\ npc = "record"
    /\ ni > Len(records)
    /\ log' = Append(log, [level |-> "INFO", msg |-> "Normalisation OK",
                           args |-> << Len(firms), Len(offices) >>])
    /\ npc' = "returned"
    /\ UNCHANGED <<wvars, gvars, cvars, mvars, pvars, hvars, notLog, records, ni, nj, nraised>>

\* the raw records: Ids and names with stray whitespace or blank, offices
\* with a complete, a partial or an empty address, or with a blank OfficeId
RawOffice(id, a1, a2, town, postcode, country) ==
    JDict(<< <<"OfficeId", id>>, <<"OfficeType", JStr("HEAD OFFICE")>>,
             <<"Address1", a1>>, <<"Address2", a2>>, <<"Town", town>>,
             <<"Postcode", postcode>>, <<"Country", country>> >>)

CompleteOffice(id) ==
    RawOffice(JStr(id), JStr("1 High  St"), JStr("Floor 2"), JStr("Town"),
              JStr("P1"), JStr("UK"))

EmptyAddressOffice(id) ==
    RawOffice(JStr(id), JStr(""), JNull, JStr(" "), JNull, JStr(""))

PartialAddressOffice(id) ==
    RawOffice(JStr(id), JStr("1 High  St"), JNull, JNull, JNull, JNull)

RawOfficeLists ==
    { << >>,
      << CompleteOffice("O1") >>,
      << EmptyAddressOffice("O2"), CompleteOffice("O3") >>,
      << CompleteOffice(" "), PartialAddressOffice("O4") >> }

RawRecords ==
    { JDict(<< <<"Id", id>>, <<"PracticeName", name>>,
               <<"AuthorisationStatus", JStr("Active")>>,
               <<"Offices", JList(offs)>> >>) :
        id \in {JStr("F1"), JStr("F2 "), JStr(" ")},
        name \in {JStr("Firm  One"), JStr(" ")},
        offs \in RawOfficeLists }

NormaliseInit ==
    /\ records \in SeqsUpTo(RawRecords, MaxRecords)
    /\ firms = << >>
    /\ offices = << >>
    /\ firms_doc = JNull
    /\ gpc = "start"
    /\ PUBLIC_ID_BASE = TestIdBase
    /\ ni = 1
    /\ nj = 1
    /\ npc = "record"
    /\ nraised = "none"

NormaliseNext == NormaliseFirm \/ NormaliseOffice \/ OfficesDone \/ NormaliseReturn

NormaliseSpecInit ==
    /\ NormaliseInit /\ WriterParked /\ CanonParked /\ ManifestParked
    /\ PipelineParked /\ ValidateParked /\ HashParked

SpecNormalise == NormaliseSpecInit /\ [][NormaliseNext]_vars

-----------------------------------------------------------------------------
(* Properties of normalise_records (checked under SpecNormalise)            *)

CleanId(rec) == _clean(PyGet(rec, "Id"))
CleanName(rec) == _clean(PyGet(rec, "PracticeName"))

\* the records that pass the minimal structural checks
StructurallyValid(rec) == CleanId(rec) # "" /\ CleanName(rec) # ""

\* a record with an Id and a blank PracticeName
BlankName(rec) == CleanId(rec) # "" /\ CleanName(rec) = ""

SraIdsOf(fms) == [i \in 1..Len(fms) |-> fms[i].sraId]

ValidIds(recs) ==
    [i \in 1..Len(SelectSeq(recs, StructurallyValid)) |->
        CleanId(SelectSeq(recs, StructurallyValid)[i])]

\* C15: a raw record that fails the minimal structural checks (a non-empty
\* Id with a blank PracticeName) is filtered out and logged and the batch
\* continues: every other valid record is returned and no exception reaches
\* the caller.
C15_BadRecordFilteredBatchContinues ==
    /\ npc # "raised"
    /\ npc = "returned" => SraIdsOf(firms) = ValidIds(records)

\* a record with a blank PracticeName ended the batch with ValidationError
\* although a valid record follows it
C15_BatchAborted ==
    /\ npc = "raised" /\ nraised = "ValidationError"
    /\ BlankName(records[ni])
    /\ ni < Len(records) /\ StructurallyValid(records[ni + 1])

\* every field of the address is empty after cleanup
AllAddressFieldsEmpty(office) ==
    /\ _clean(JStr(StreetOf(office))) = ""
    /\ _clean(PyGet(office, "Town")) = ""
    /\ _clean(PyGet(office, "Postcode")) = ""
    /\ _clean(PyGet(office, "Country")) = ""

SomeAddressFieldEmpty(office) ==
    \/ _clean(JStr(StreetOf(office))) = ""
    \/ _clean(PyGet(office, "Town")) = ""
    \/ _clean(PyGet(office, "Postcode")) = ""
    \/ _clean(PyGet(office, "Country")) = ""

\* the offices of a record that are kept: an OfficeId and a full address
Kept(office) == _clean(PyGet(office, "OfficeId")) # "" /\ ~SomeAddressFieldEmpty(office)

KeptIdsOf(rec) ==
    [i \in 1..Len(SelectSeq(RawOffices(rec), Kept)) |->
        << CleanId(rec), _clean(PyGet(SelectSeq(RawOffices(rec), Kept)[i], "OfficeId")) >>]

\* the <<firmSraId, officeId>> of the offices expected from the records n..
RECURSIVE ExpectedOfficeKeys(_, _)
ExpectedOfficeKeys(recs, n) ==
    IF n > Len(recs) THEN << >>
    ELSE (IF CleanId(recs[n]) # "" THEN KeptIdsOf(recs[n]) ELSE << >>)
         \o ExpectedOfficeKeys(recs, n + 1)

OfficeKeys(offs) == [i \in 1..Len(offs) |-> << offs[i].firmSraId, offs[i].officeId >>]

\* the step of the inner loop on an office with an empty address
OnEmptyAddressOffice ==
    /\ npc = "offices"
    /\ nj <= Len(RawOffices(records[ni]))
    /\ _clean(PyGet(RawOffices(records[ni])[nj], "OfficeId")) # ""
    /\ AllAddressFieldsEmpty(RawOffices(records[ni])[nj])

DroppedWithoutRaising ==
    OnEmptyAddressOffice =>
        /\ offices' = offices /\ firms' = firms
        /\ npc' = "offices" /\ nj' = nj + 1 /\ nraised' = "none"

\* C18: an office whose address has every field empty after cleanup is
\* dropped from the returned offices without raising; its owning firm and
\* the other offices of the same and of later records are still returned.
C18_EmptyAddressOfficeDropped ==
    /\ [][DroppedWithoutRaising]_vars
    /\ [](npc = "returned" =>
            /\ OfficeKeys(offices) = ExpectedOfficeKeys(records, 1)
            /\ \A i \in 1..Len(offices) : AddressValid(offices[i].address)
            /\ \A n \in 1..Len(records) :
                   CleanId(records[n]) # "" =>
                       \E j \in 1..Len(firms) : firms[j].sraId = CleanId(records[n]))

\* C18 witness: the first record holds an office with an empty address and
\* then a complete one, a later record holds a complete office; the call
\* returned the firm of the first record and the two complete offices
C18_Witness ==
    /\ npc = "returned"
    /\ Len(records) = 2
    /\ Len(RawOffices(records[1])) = 2
    /\ AllAddressFieldsEmpty(RawOffices(records[1])[1])
    /\ Len(RawOffices(records[2])) = 1
    /\ Len(firms) = 2
    /\ OfficeKeys(offices) = << <<"F1", "O3">>, <<"F2", "O1">> >>

OfficesIn(recs) ==
    {n \in 1..Len(recs) : CleanId(recs[n]) # ""}

RECURSIVE SumOfficeCounts(_, _)
SumOfficeCounts(recs, n) ==
    IF n > Len(recs) THEN 0
    ELSE (IF CleanId(recs[n]) # "" THEN Len(RawOffices(recs[n])) ELSE 0)
         + SumOfficeCounts(recs, n + 1)

\* C20: when normalise_records returns, every returned office's firmSraId
\* is the sraId of a returned firm, the cleaned Id of the record that held
\* the office; a record skipped for a blank Id contributes no office.
C20_NoOrphanOfficeReturned ==
    npc = "returned" =>
        /\ \A i \in 1..Len(offices) :
               /\ \E j \in 1..Len(firms) : firms[j].sraId = offices[i].firmSraId
               /\ \E n \in OfficesIn(records) :
                      /\ CleanId(records[n]) = offices[i].firmSraId
                      /\ \E k \in 1..Len(RawOffices(records[n])) :
                             _clean(PyGet(RawOffices(records[n])[k], "OfficeId"))
                                 = offices[i].officeId
        /\ Len(offices) <= SumOfficeCounts(records, 1)

\* C20 witness: a record with a blank Id that holds a complete office was
\* skipped, another record gave a firm and its office
C20_Witness ==
    /\ npc = "returned"
    /\ Len(records) = 2
    /\ CleanId(records[1]) = "" /\ RawOffices(records[1]) = << CompleteOffice("O1") >>
    /\ Len(firms) = 1 /\ Len(offices) = 1
    /\ offices[1].firmSraId = firms[1].sraId

-----------------------------------------------------------------------------
(* Properties of the identifiers (checked under SpecGraph)                  *)

\* the configured identifier base as text, its final "/" left off
IdBase ==
    IF PUBLIC_ID_BASE = TestIdBase THEN "https://api.veritrustgroup.org/id"
    ELSE Formatted(PUBLIC_ID_BASE)

FirmIdentifier(sraId) == IdBase \o "/firm/" \o sraId
OfficeIdentifier(officeId) == IdBase \o "/office/" \o officeId

\* C16: every firm entity's identifier is exactly <id-base>/firm/<sraId>,
\* every office entity's identifier is exactly <id-base>/office/<officeId>,
\* and each office entity's firm back-reference is the identifier built for
\* the firm whose sraId is the office's firmSraId.
C16_IdentifiersFromBaseAndKey ==
    gpc = "done" =>
        \A i \in 1..Len(Graph) :
            /\ IsFirmEntity(Graph[i]) =>
                   Get(Graph[i], "@id") = JStr(FirmIdentifier(Get(Graph[i], "sraId").str))
            /\ IsOfficeEntity(Graph[i]) =>
                   /\ Get(Graph[i], "@id")
                          = JStr(OfficeIdentifier(Get(Graph[i], "officeId").str))
                   /\ \E j \in 1..Len(offices) :
                          /\ offices[j].officeId = Get(Graph[i], "officeId").str
                          /\ Get(Graph[i], "firm")
                                 = JDict(<< <<"@id", JStr(FirmIdentifier(offices[j].firmSraId))>> >>)

\* the base is configured without a final "/" (or not at all) and the graph
\* holds a firm whose identifier has no "/" between the base and "firm"
C16_NoSeparator ==
    /\ gpc = "done"
    /\ PUBLIC_ID_BASE # TestIdBase
    /\ \E i \in 1..Len(Graph) :
           /\ IsFirmEntity(Graph[i])
           /\ Get(Graph[i], "@id")
                  \in { JStr("https://api.veritrustgroup.org/idfirm/F1"), JStr("Nonefirm/F1") }

-----------------------------------------------------------------------------
(* manifest_builder._file_sha256, the read loop step by step, on files      *)
(* whose length is around a multiple of the chunk size                      *)

FReadSkippingAByte(bytes, pos, n) ==
    SubSeq(bytes, pos + 2, Min(pos + n, Len(bytes)))

\* f.read(n) at position pos: at most n bytes, b"" at the end of the file
FRead(bytes, pos, n) == SubSeq(bytes, pos + 1, Min(pos + n, Len(bytes)))

\* hashlib.sha256(): the digest of a byte sequence determines the bytes
Sha256OfBytes(bytes) == [sha256 |-> bytes]

\* digest.update(chunk) for a chunk that is not b""
HashUpdate ==
    /\ hpc = "reading"
    /\ FRead(hfile, hpos, CHUNK_SIZE) # << >>
    /\ hchunks' = Append(hchunks, FRead(hfile, hpos, CHUNK_SIZE))
    /\ hfed' = hfed \o FRead(hfile, hpos, CHUNK_SIZE)
    /\ hpos' = hpos + Len(FRead(hfile, hpos, CHUNK_SIZE))
    /\ UNCHANGED <<wvars, gvars, cvars, mvars, pvars, vvars, nvars, hfile, hdigest, hpc>>

\* f.read returned the sentinel b"": return digest.hexdigest()
HashReturn ==
    /\ hpc = "reading"
    /\ FRead(hfile, hpos, CHUNK_SIZE) = << >>
    /\ hdigest' = Sha256OfBytes(hfed)
    /\ hpc' = "done"
    /\ UNCHANGED <<wvars, gvars, cvars, mvars, pvars, vvars, nvars, hfile, hpos,
                   hchunks, hfed>>

\* the files: lengths one below, at and one above each multiple of the
\* chunk size, filled with bytes that differ from place to place
MaxChunks == 2

FileLengths ==
    { n \in UNION { {k * CHUNK_SIZE - 1, k * CHUNK_SIZE, k * CHUNK_SIZE + 1} :
                    k \in 0..MaxChunks } : n >= 0 }

ByteStrides == 1..5

FileOf(len, stride) == [i \in 1..len |-> (i * stride) % 256]

HashInit ==
    /\ hfile \in { FileOf(len, stride) : len \in FileLengths, stride \in ByteStrides }
    /\ hpos = 0
    /\ hchunks = << >>
    /\ hfed = << >>
    /\ hdigest = NoDigest
    /\ hpc = "reading"

HashNext == HashUpdate \/ HashReturn

HashSpecInit ==
    /\ HashInit /\ WriterParked /\ GraphParked /\ CanonParked /\ ManifestParked
    /\ PipelineParked /\ ValidateParked /\ NormaliseParked

\* the loop runs on when it can: nothing else holds the function up
SpecHash == HashSpecInit /\ [][HashNext]_vars /\ WF_vars(HashNext)

\* the chunks joined in order
RECURSIVE Joined(_)
Joined(chunks) == IF chunks = << >> THEN << >> ELSE Head(chunks) \o Joined(Tail(chunks))

\* C17: for a file of any length, _file_sha256 feeds the hash the file's
\* bytes in chunks of bounded size whose concatenation, in order, is the
\* file's byte sequence, so the digest is that of hashing the whole buffer
\* at once, and the read loop terminates.
C17_StreamingEqualsWholeBuffer ==
    /\ [](\A i \in 1..Len(hchunks) :
              Len(hchunks[i]) > 0 /\ Len(hchunks[i]) <= CHUNK_SIZE)
    /\ [](hfed = Joined(hchunks) /\ hfed = SubSeq(hfile, 1, hpos))
    /\ [](hpc = "done" =>
              /\ Joined(hchunks) = hfile
              /\ hchunks = ReadChunks(hfile, 1)
              /\ hdigest = Sha256OfBytes(hfile))
    /\ <>(hpc = "done")

\* C17 witness: a file one byte longer than two chunks was hashed in two
\* full chunks and a chunk of one byte
C17_Witness ==
    /\ hpc = "done"
    /\ Len(hfile) = 2 * CHUNK_SIZE + 1
    /\ Len(hchunks) = 3
    /\ Len(hchunks[1]) = CHUNK_SIZE /\ Len(hchunks[3]) = 1
    /\ hdigest = Sha256OfBytes(hfile)

\* C17: the empty file and a file of exactly one chunk
C17_EmptyAndExactReached ==
    /\ hpc = "done"
    /\ \/ hfile = << >> /\ hchunks = << >>
       \/ Len(hfile) = CHUNK_SIZE /\ Len(hchunks) = 1

=============================================================================
